---- MODULE Spec2Model ----
(***************************************************************************)
(* A model of the input-validation, rate-limiting and auth-action layer of *)
(* alx-polly.  Strings the code inspects character by character are        *)
(* sequences of characters, one per UTF-16 code unit.  An ASCII character  *)
(* is the one-character string of itself ("A", "\r"); a character outside  *)
(* ASCII is the string of its code point in four hexadecimal digits        *)
(* ("U+00E9" for e with acute, "U+2028" for the line separator), so that   *)
(* the module is ASCII and reads the same in every locale; so is the       *)
(* backtick ("U+0060"), which no string of a module can hold.  A character *)
(* beyond U+FFFF is its two surrogates.  Timestamps are milliseconds.      *)
(***************************************************************************)
EXTENDS Integers, Sequences, FiniteSets, Bags, TLC

VARIABLES
    rateLimitStore,  \* lib/rate-limit.ts: Map<string, RateLimitEntry>
    now,             \* the value Date.now() returns
    advances,        \* number of clock steps taken so far
    workload,        \* the (limit class, identifier) pairs this run exercises
    window,          \* history: the fixed window each key is in, and the calls made in it
    last,            \* history: the last operation on the store, with the entry before and after
    routeType,       \* lib/middleware/rate-limit.ts: the rateLimitType the route was wrapped with
    requests,        \* the requests in the wrapped handler: where each stands and what it holds
    text,            \* lib/security.ts: a string handed to the sanitizers
    sanitizedOut,    \* what sanitizeHtml and sanitizeText returned for it
    pollOptions,     \* an options array handed to validatePollOptions
    validated,       \* what validatePollOptions returned for it
    authPending,     \* app/lib/actions/auth-actions.ts: the auth actions in progress, a bag
    authReq,         \* the auth action that settled last: what it returned, or that it rejected
    failed,          \* history: per auth action, the errors it returned when the platform call failed
    authWindow,      \* history: the fixed 15-minute window of platform auth calls, and their number
    polls,           \* the polls table: per poll id the poll, or None
    lastPollOp       \* history: the last poll action, its actor and the table before it

limiterVars == <<rateLimitStore, now, advances, workload, window, last>>

middlewareVars == <<routeType, requests>>

textVars == <<text, sanitizedOut, pollOptions, validated>>

authVars == <<authPending, authReq, failed, authWindow>>

pollVars == <<polls, lastPollOp>>

\* What the limiter's own operations leave alone.
outsideLimiter == <<middlewareVars, textVars, authVars, pollVars>>

\* What the requests through withRateLimit leave alone.
outsideMiddleware == <<textVars, authVars, pollVars>>

vars == <<limiterVars, middlewareVars, textVars, authVars, pollVars>>

\* Absence of a record (Map.get returning undefined, nothing recorded yet).
None == [op |-> "none"]

-----------------------------------------------------------------------------
(* lib/rate-limit.ts                                                       *)

RATE_LIMITS ==
    [ auth         |-> [windowMs |-> 15 * 60 * 1000, maxAttempts |-> 5],
      pollCreation |-> [windowMs |-> 60 * 1000,      maxAttempts |-> 3],
      api          |-> [windowMs |-> 60 * 1000,      maxAttempts |-> 30] ]

LimitTypes == {"auth", "pollCreation", "api"}

\* The characters of a limit class's name, as the template literal writes them.
TypeChars(type) ==
    CASE type = "auth"         -> <<"a", "u", "t", "h">>
      [] type = "pollCreation" -> <<"p", "o", "l", "l", "C", "r", "e", "a", "t", "i", "o", "n">>
      [] type = "api"          -> <<"a", "p", "i">>

KeyByIdentifier(type, identifier) == identifier

\* const key = `${type}:${identifier}`
Key(type, identifier) == TypeChars(type) \o <<":">> \o identifier

WindowExpiredAtReset(entry, t) == t >= entry.resetTime

\* now > entry.resetTime
WindowExpired(entry, t) == t > entry.resetTime

ExceededOffByOne(entry, config) == entry.count > config.maxAttempts

\* entry.count >= config.maxAttempts
Exceeded(entry, config) == entry.count >= config.maxAttempts

\* Map.get: the entry stored under key, or None
StoreGet(store, key) == IF key \in DOMAIN store THEN store[key] ELSE None

\* Map.set
StoreSet(store, key, entry) ==
    [k \in DOMAIN store \cup {key} |-> IF k = key THEN entry ELSE store[k]]

\* A limiter that counts a denied call too.
checkRateLimitCountingDenied(store, identifier, type, t) ==
    LET config == RATE_LIMITS[type]
        key    == Key(type, identifier)
        entry  == StoreGet(store, key)
    IN  IF entry = None \/ WindowExpired(entry, t)
        THEN LET newEntry == [count |-> 1, resetTime |-> t + config.windowMs]
             IN  [ store  |-> StoreSet(store, key, newEntry),
                   result |-> [ allowed   |-> TRUE,
                                remaining |-> config.maxAttempts - 1,
                                resetTime |-> newEntry.resetTime ] ]
        ELSE LET bumped == [entry EXCEPT !.count = entry.count + 1]
             IN  IF Exceeded(entry, config)
                 THEN [ store  |-> StoreSet(store, key, bumped),
                        result |-> [ allowed   |-> FALSE,
                                     remaining |-> 0,
                                     resetTime |-> entry.resetTime ] ]
                 ELSE [ store  |-> StoreSet(store, key, bumped),
                        result |-> [ allowed   |-> TRUE,
                                     remaining |-> config.maxAttempts - bumped.count,
                                     resetTime |-> bumped.resetTime ] ]

\* checkRateLimit(identifier, type) called when Date.now() = t on the store:
\* the store it leaves and the object it returns.
checkRateLimit(store, identifier, type, t) ==
    LET config == RATE_LIMITS[type]
        key    == Key(type, identifier)
        entry  == StoreGet(store, key)
    IN  IF entry = None \/ WindowExpired(entry, t)
        THEN LET newEntry == [count |-> 1, resetTime |-> t + config.windowMs]
             IN  [ store  |-> StoreSet(store, key, newEntry),
                   result |-> [ allowed   |-> TRUE,
                                remaining |-> config.maxAttempts - 1,
                                resetTime |-> newEntry.resetTime ] ]
        ELSE IF Exceeded(entry, config)
        THEN [ store  |-> store,
               result |-> [ allowed   |-> FALSE,
                            remaining |-> 0,
                            resetTime |-> entry.resetTime ] ]
        ELSE LET bumped == [entry EXCEPT !.count = entry.count + 1]
             IN  [ store  |-> StoreSet(store, key, bumped),
                   result |-> [ allowed   |-> TRUE,
                                remaining |-> config.maxAttempts - bumped.count,
                                resetTime |-> bumped.resetTime ] ]

cleanupEntriesAtReset(store, t) ==
    LET keep == {k \in DOMAIN store : ~(t >= store[k].resetTime)}
    IN  [k \in keep |-> store[k]]

\* cleanupExpiredEntries() called when Date.now() = t: the store it leaves.
cleanupExpiredEntries(store, t) ==
    LET keep == {k \in DOMAIN store : ~(t > store[k].resetTime)}
    IN  [k \in keep |-> store[k]]

\* Characters String.prototype.trim removes and \s matches: the white space
\* and the line terminators of ECMAScript, that is tab, line feed, vertical
\* tab, form feed, carriage return, space, no-break space, the other space
\* separators of Unicode, the line and paragraph separators and the byte
\* order mark.
WhiteSpace ==
    { "\t", "\n", "", "\f", "\r", " ",
      "U+00A0", "U+1680",
      "U+2000", "U+2001", "U+2002", "U+2003", "U+2004", "U+2005",
      "U+2006", "U+2007", "U+2008", "U+2009", "U+200A",
      "U+2028", "U+2029", "U+202F", "U+205F", "U+3000", "U+FEFF" }

RECURSIVE TrimStart(_)
TrimStart(str) ==
    IF str # <<>> /\ Head(str) \in WhiteSpace THEN TrimStart(Tail(str)) ELSE str

RECURSIVE TrimEnd(_)
TrimEnd(str) ==
    IF str # <<>> /\ str[Len(str)] \in WhiteSpace
    THEN TrimEnd(SubSeq(str, 1, Len(str) - 1))
    ELSE str

\* str.trim()
Trim(str) == TrimEnd(TrimStart(str))

\* str.indexOf(ch) + 1: the position of the first ch in str, 0 when there is none
IndexOf(str, ch) ==
    IF \E k \in DOMAIN str : str[k] = ch
    THEN CHOOSE k \in DOMAIN str : str[k] = ch /\ \A j \in 1..(k - 1) : str[j] # ch
    ELSE 0

\* str.split(',')[0]: what precedes the first comma, the whole string without one
FirstSegment(str) ==
    LET comma == IndexOf(str, ",")
    IN  IF comma = 0 THEN str ELSE SubSeq(str, 1, comma - 1)

\* if (headers.get(name)): the header is present and not the empty string
HasValue(headers, name) == name \in DOMAIN headers /\ headers[name] # <<>>

Unknown == <<"u", "n", "k", "n", "o", "w", "n">>

getClientIPForwardedFirst(headers) ==
    IF HasValue(headers, "x-forwarded-for")
    THEN Trim(FirstSegment(headers["x-forwarded-for"]))
    ELSE IF HasValue(headers, "cf-connecting-ip") THEN headers["cf-connecting-ip"]
    ELSE IF HasValue(headers, "x-real-ip") THEN headers["x-real-ip"]
    ELSE Unknown

\* getClientIP(headers); headers maps the names of the headers present to their values
getClientIP(headers) ==
    IF HasValue(headers, "cf-connecting-ip") THEN headers["cf-connecting-ip"]
    ELSE IF HasValue(headers, "x-real-ip") THEN headers["x-real-ip"]
    ELSE IF HasValue(headers, "x-forwarded-for")
         THEN Trim(FirstSegment(headers["x-forwarded-for"]))
    ELSE Unknown

-----------------------------------------------------------------------------
(* lib/security.ts                                                         *)

LowerCase == { "a", "b", "c", "d", "e", "f", "g", "h", "i", "j", "k", "l", "m",
               "n", "o", "p", "q", "r", "s", "t", "u", "v", "w", "x", "y", "z" }

UpperCase == { "A", "B", "C", "D", "E", "F", "G", "H", "I", "J", "K", "L", "M",
               "N", "O", "P", "Q", "R", "S", "T", "U", "V", "W", "X", "Y", "Z" }

DigitChars == {"0", "1", "2", "3", "4", "5", "6", "7", "8", "9"}

\* The characters of a string literal of the source.
Amp  == <<"&", "a", "m", "p", ";">>
Lt   == <<"&", "l", "t", ";">>
Gt   == <<"&", "g", "t", ";">>
Quot == <<"&", "q", "u", "o", "t", ";">>
Apos == <<"&", "#", "x", "2", "7", ";">>
Sol  == <<"&", "#", "x", "2", "F", ";">>

\* str.replace(/ch/g, rep) for a single character ch: every ch becomes rep
\* (computed by halves, which keeps the evaluation shallow on long strings)
RECURSIVE ReplaceAll(_, _, _)
ReplaceAll(str, ch, rep) ==
    IF str = <<>> THEN <<>>
    ELSE IF Len(str) = 1 THEN (IF str[1] = ch THEN rep ELSE str)
    ELSE LET half == Len(str) \div 2
         IN  ReplaceAll(SubSeq(str, 1, half), ch, rep)
                \o ReplaceAll(SubSeq(str, half + 1, Len(str)), ch, rep)

\* sanitizeHtml(input) for a string input
sanitizeHtml(input) ==
    ReplaceAll(
      ReplaceAll(
        ReplaceAll(
          ReplaceAll(
            ReplaceAll(
              ReplaceAll(input, "&", Amp),
              "<", Lt),
            ">", Gt),
          "\"", Quot),
        "'", Apos),
      "/", Sol)

KeepTags(str) == str

\* str.replace(/<[^>]*>/g, ''): matches are taken from left to right and do
\* not overlap.  Up to the first '>' of str, the leftmost '<' (if there is
\* one) starts a match that ends at that '>'; without a '<' before it the '>'
\* stays; the scan goes on after that '>'.  With no '>' left nothing matches.
RECURSIVE StripTags(_)
StripTags(str) ==
    LET close == IndexOf(str, ">")
    IN  IF close = 0 THEN str
        ELSE LET open == IndexOf(SubSeq(str, 1, close), "<")
             IN  (IF open = 0 THEN SubSeq(str, 1, close) ELSE SubSeq(str, 1, open - 1))
                    \o StripTags(SubSeq(str, close + 1, Len(str)))

\* The five replacements sanitizeText makes after removing the tags.
EscapeText(str) ==
    ReplaceAll(
      ReplaceAll(
        ReplaceAll(
          ReplaceAll(
            ReplaceAll(str, "&", Amp),
            "<", Lt),
          ">", Gt),
        "\"", Quot),
      "'", Apos)

\* sanitizeText(input) for a string input
sanitizeText(input) == EscapeText(StripTags(input))

NoDuplicateCheck(sanitized) == FALSE

\* new Set(sanitized).size !== sanitized.length
HasDuplicates(sanitized) ==
    Cardinality({sanitized[k] : k \in DOMAIN sanitized}) # Len(sanitized)

\* The loop of validatePollOptions from option i on (i counts from 1, as the
\* messages do); acc holds the sanitized options and the errors so far.
RECURSIVE ValidateEachOption(_, _, _)
ValidateEachOption(options, i, acc) ==
    IF i > Len(options) THEN acc
    ELSE LET option == Trim(sanitizeText(options[i]))
         IN  ValidateEachOption(options, i + 1,
                IF option = <<>>
                THEN [acc EXCEPT !.errors = Append(@, <<"Option ", i, " cannot be empty">>)]
                ELSE IF Len(option) > 200
                THEN [acc EXCEPT !.errors =
                         Append(@, <<"Option ", i, " must be less than 200 characters">>)]
                ELSE [acc EXCEPT !.sanitized = Append(@, option)])

\* validatePollOptions(options) for an array of strings
validatePollOptions(options) ==
    IF Len(options) < 2
    THEN [sanitized |-> <<>>, errors |-> << <<"At least 2 options are required">> >>]
    ELSE IF Len(options) > 10
    THEN [sanitized |-> <<>>, errors |-> << <<"Maximum 10 options allowed">> >>]
    ELSE LET each == ValidateEachOption(options, 1, [sanitized |-> <<>>, errors |-> <<>>])
         IN  IF HasDuplicates(each.sanitized)
             THEN [each EXCEPT !.errors = Append(@, <<"Duplicate options are not allowed">>)]
             ELSE each

\* The characters of the Basic Multilingual Plane that toLowerCase changes
\* into one other character whatever stands around them, each with that
\* character (the simple lower-case mappings of the Unicode Character
\* Database, version 17.0): A to Z and the upper-case letters outside ASCII.
LowerLetters ==
    LET part1 ==
               "A" :> "a" @@ "B" :> "b" @@ "C" :> "c" @@ "D" :> "d"
            @@ "E" :> "e" @@ "F" :> "f" @@ "G" :> "g" @@ "H" :> "h"
            @@ "I" :> "i" @@ "J" :> "j" @@ "K" :> "k" @@ "L" :> "l"
            @@ "M" :> "m" @@ "N" :> "n" @@ "O" :> "o" @@ "P" :> "p"
            @@ "Q" :> "q" @@ "R" :> "r" @@ "S" :> "s" @@ "T" :> "t"
            @@ "U" :> "u" @@ "V" :> "v" @@ "W" :> "w" @@ "X" :> "x"
            @@ "Y" :> "y" @@ "Z" :> "z" @@ "U+00C0" :> "U+00E0"
            @@ "U+00C1" :> "U+00E1" @@ "U+00C2" :> "U+00E2"
            @@ "U+00C3" :> "U+00E3" @@ "U+00C4" :> "U+00E4"
            @@ "U+00C5" :> "U+00E5" @@ "U+00C6" :> "U+00E6"
            @@ "U+00C7" :> "U+00E7" @@ "U+00C8" :> "U+00E8"
            @@ "U+00C9" :> "U+00E9" @@ "U+00CA" :> "U+00EA"
            @@ "U+00CB" :> "U+00EB" @@ "U+00CC" :> "U+00EC"
            @@ "U+00CD" :> "U+00ED"
        part2 ==
               "U+00CE" :> "U+00EE" @@ "U+00CF" :> "U+00EF"
            @@ "U+00D0" :> "U+00F0" @@ "U+00D1" :> "U+00F1"
            @@ "U+00D2" :> "U+00F2" @@ "U+00D3" :> "U+00F3"
            @@ "U+00D4" :> "U+00F4" @@ "U+00D5" :> "U+00F5"
            @@ "U+00D6" :> "U+00F6" @@ "U+00D8" :> "U+00F8"
            @@ "U+00D9" :> "U+00F9" @@ "U+00DA" :> "U+00FA"
            @@ "U+00DB" :> "U+00FB" @@ "U+00DC" :> "U+00FC"
            @@ "U+00DD" :> "U+00FD" @@ "U+00DE" :> "U+00FE"
            @@ "U+0100" :> "U+0101" @@ "U+0102" :> "U+0103"
            @@ "U+0104" :> "U+0105" @@ "U+0106" :> "U+0107"
            @@ "U+0108" :> "U+0109" @@ "U+010A" :> "U+010B"
            @@ "U+010C" :> "U+010D" @@ "U+010E" :> "U+010F"
            @@ "U+0110" :> "U+0111" @@ "U+0112" :> "U+0113"
            @@ "U+0114" :> "U+0115" @@ "U+0116" :> "U+0117"
            @@ "U+0118" :> "U+0119" @@ "U+011A" :> "U+011B"
            @@ "U+011C" :> "U+011D" @@ "U+011E" :> "U+011F"
            @@ "U+0120" :> "U+0121" @@ "U+0122" :> "U+0123"
            @@ "U+0124" :> "U+0125" @@ "U+0126" :> "U+0127"
            @@ "U+0128" :> "U+0129" @@ "U+012A" :> "U+012B"
            @@ "U+012C" :> "U+012D" @@ "U+012E" :> "U+012F"
        part3 ==
               "U+0132" :> "U+0133" @@ "U+0134" :> "U+0135"
            @@ "U+0136" :> "U+0137" @@ "U+0139" :> "U+013A"
            @@ "U+013B" :> "U+013C" @@ "U+013D" :> "U+013E"
            @@ "U+013F" :> "U+0140" @@ "U+0141" :> "U+0142"
            @@ "U+0143" :> "U+0144" @@ "U+0145" :> "U+0146"
            @@ "U+0147" :> "U+0148" @@ "U+014A" :> "U+014B"
            @@ "U+014C" :> "U+014D" @@ "U+014E" :> "U+014F"
            @@ "U+0150" :> "U+0151" @@ "U+0152" :> "U+0153"
            @@ "U+0154" :> "U+0155" @@ "U+0156" :> "U+0157"
            @@ "U+0158" :> "U+0159" @@ "U+015A" :> "U+015B"
            @@ "U+015C" :> "U+015D" @@ "U+015E" :> "U+015F"
            @@ "U+0160" :> "U+0161" @@ "U+0162" :> "U+0163"
            @@ "U+0164" :> "U+0165" @@ "U+0166" :> "U+0167"
            @@ "U+0168" :> "U+0169" @@ "U+016A" :> "U+016B"
            @@ "U+016C" :> "U+016D" @@ "U+016E" :> "U+016F"
            @@ "U+0170" :> "U+0171" @@ "U+0172" :> "U+0173"
            @@ "U+0174" :> "U+0175" @@ "U+0176" :> "U+0177"
            @@ "U+0178" :> "U+00FF" @@ "U+0179" :> "U+017A"
            @@ "U+017B" :> "U+017C" @@ "U+017D" :> "U+017E"
            @@ "U+0181" :> "U+0253" @@ "U+0182" :> "U+0183"
        part4 ==
               "U+0184" :> "U+0185" @@ "U+0186" :> "U+0254"
            @@ "U+0187" :> "U+0188" @@ "U+0189" :> "U+0256"
            @@ "U+018A" :> "U+0257" @@ "U+018B" :> "U+018C"
            @@ "U+018E" :> "U+01DD" @@ "U+018F" :> "U+0259"
            @@ "U+0190" :> "U+025B" @@ "U+0191" :> "U+0192"
            @@ "U+0193" :> "U+0260" @@ "U+0194" :> "U+0263"
            @@ "U+0196" :> "U+0269" @@ "U+0197" :> "U+0268"
            @@ "U+0198" :> "U+0199" @@ "U+019C" :> "U+026F"
            @@ "U+019D" :> "U+0272" @@ "U+019F" :> "U+0275"
            @@ "U+01A0" :> "U+01A1" @@ "U+01A2" :> "U+01A3"
            @@ "U+01A4" :> "U+01A5" @@ "U+01A6" :> "U+0280"
            @@ "U+01A7" :> "U+01A8" @@ "U+01A9" :> "U+0283"
            @@ "U+01AC" :> "U+01AD" @@ "U+01AE" :> "U+0288"
            @@ "U+01AF" :> "U+01B0" @@ "U+01B1" :> "U+028A"
            @@ "U+01B2" :> "U+028B" @@ "U+01B3" :> "U+01B4"
            @@ "U+01B5" :> "U+01B6" @@ "U+01B7" :> "U+0292"
            @@ "U+01B8" :> "U+01B9" @@ "U+01BC" :> "U+01BD"
            @@ "U+01C4" :> "U+01C6" @@ "U+01C5" :> "U+01C6"
            @@ "U+01C7" :> "U+01C9" @@ "U+01C8" :> "U+01C9"
            @@ "U+01CA" :> "U+01CC" @@ "U+01CB" :> "U+01CC"
        part5 ==
               "U+01CD" :> "U+01CE" @@ "U+01CF" :> "U+01D0"
            @@ "U+01D1" :> "U+01D2" @@ "U+01D3" :> "U+01D4"
            @@ "U+01D5" :> "U+01D6" @@ "U+01D7" :> "U+01D8"
            @@ "U+01D9" :> "U+01DA" @@ "U+01DB" :> "U+01DC"
            @@ "U+01DE" :> "U+01DF" @@ "U+01E0" :> "U+01E1"
            @@ "U+01E2" :> "U+01E3" @@ "U+01E4" :> "U+01E5"
            @@ "U+01E6" :> "U+01E7" @@ "U+01E8" :> "U+01E9"
            @@ "U+01EA" :> "U+01EB" @@ "U+01EC" :> "U+01ED"
            @@ "U+01EE" :> "U+01EF" @@ "U+01F1" :> "U+01F3"
            @@ "U+01F2" :> "U+01F3" @@ "U+01F4" :> "U+01F5"
            @@ "U+01F6" :> "U+0195" @@ "U+01F7" :> "U+01BF"
            @@ "U+01F8" :> "U+01F9" @@ "U+01FA" :> "U+01FB"
            @@ "U+01FC" :> "U+01FD" @@ "U+01FE" :> "U+01FF"
            @@ "U+0200" :> "U+0201" @@ "U+0202" :> "U+0203"
            @@ "U+0204" :> "U+0205" @@ "U+0206" :> "U+0207"
            @@ "U+0208" :> "U+0209" @@ "U+020A" :> "U+020B"
            @@ "U+020C" :> "U+020D" @@ "U+020E" :> "U+020F"
            @@ "U+0210" :> "U+0211" @@ "U+0212" :> "U+0213"
            @@ "U+0214" :> "U+0215" @@ "U+0216" :> "U+0217"
            @@ "U+0218" :> "U+0219" @@ "U+021A" :> "U+021B"
        part6 ==
               "U+021C" :> "U+021D" @@ "U+021E" :> "U+021F"
            @@ "U+0220" :> "U+019E" @@ "U+0222" :> "U+0223"
            @@ "U+0224" :> "U+0225" @@ "U+0226" :> "U+0227"
            @@ "U+0228" :> "U+0229" @@ "U+022A" :> "U+022B"
            @@ "U+022C" :> "U+022D" @@ "U+022E" :> "U+022F"
            @@ "U+0230" :> "U+0231" @@ "U+0232" :> "U+0233"
            @@ "U+023A" :> "U+2C65" @@ "U+023B" :> "U+023C"
            @@ "U+023D" :> "U+019A" @@ "U+023E" :> "U+2C66"
            @@ "U+0241" :> "U+0242" @@ "U+0243" :> "U+0180"
            @@ "U+0244" :> "U+0289" @@ "U+0245" :> "U+028C"
            @@ "U+0246" :> "U+0247" @@ "U+0248" :> "U+0249"
            @@ "U+024A" :> "U+024B" @@ "U+024C" :> "U+024D"
            @@ "U+024E" :> "U+024F" @@ "U+0370" :> "U+0371"
            @@ "U+0372" :> "U+0373" @@ "U+0376" :> "U+0377"
            @@ "U+037F" :> "U+03F3" @@ "U+0386" :> "U+03AC"
            @@ "U+0388" :> "U+03AD" @@ "U+0389" :> "U+03AE"
            @@ "U+038A" :> "U+03AF" @@ "U+038C" :> "U+03CC"
            @@ "U+038E" :> "U+03CD" @@ "U+038F" :> "U+03CE"
            @@ "U+0391" :> "U+03B1" @@ "U+0392" :> "U+03B2"
            @@ "U+0393" :> "U+03B3" @@ "U+0394" :> "U+03B4"
        part7 ==
               "U+0395" :> "U+03B5" @@ "U+0396" :> "U+03B6"
            @@ "U+0397" :> "U+03B7" @@ "U+0398" :> "U+03B8"
            @@ "U+0399" :> "U+03B9" @@ "U+039A" :> "U+03BA"
            @@ "U+039B" :> "U+03BB" @@ "U+039C" :> "U+03BC"
            @@ "U+039D" :> "U+03BD" @@ "U+039E" :> "U+03BE"
            @@ "U+039F" :> "U+03BF" @@ "U+03A0" :> "U+03C0"
            @@ "U+03A1" :> "U+03C1" @@ "U+03A3" :> "U+03C3"
            @@ "U+03A4" :> "U+03C4" @@ "U+03A5" :> "U+03C5"
            @@ "U+03A6" :> "U+03C6" @@ "U+03A7" :> "U+03C7"
            @@ "U+03A8" :> "U+03C8" @@ "U+03A9" :> "U+03C9"
            @@ "U+03AA" :> "U+03CA" @@ "U+03AB" :> "U+03CB"
            @@ "U+03CF" :> "U+03D7" @@ "U+03D8" :> "U+03D9"
            @@ "U+03DA" :> "U+03DB" @@ "U+03DC" :> "U+03DD"
            @@ "U+03DE" :> "U+03DF" @@ "U+03E0" :> "U+03E1"
            @@ "U+03E2" :> "U+03E3" @@ "U+03E4" :> "U+03E5"
            @@ "U+03E6" :> "U+03E7" @@ "U+03E8" :> "U+03E9"
            @@ "U+03EA" :> "U+03EB" @@ "U+03EC" :> "U+03ED"
            @@ "U+03EE" :> "U+03EF" @@ "U+03F4" :> "U+03B8"
            @@ "U+03F7" :> "U+03F8" @@ "U+03F9" :> "U+03F2"
            @@ "U+03FA" :> "U+03FB" @@ "U+03FD" :> "U+037B"
        part8 ==
               "U+03FE" :> "U+037C" @@ "U+03FF" :> "U+037D"
            @@ "U+0400" :> "U+0450" @@ "U+0401" :> "U+0451"
            @@ "U+0402" :> "U+0452" @@ "U+0403" :> "U+0453"
            @@ "U+0404" :> "U+0454" @@ "U+0405" :> "U+0455"
            @@ "U+0406" :> "U+0456" @@ "U+0407" :> "U+0457"
            @@ "U+0408" :> "U+0458" @@ "U+0409" :> "U+0459"
            @@ "U+040A" :> "U+045A" @@ "U+040B" :> "U+045B"
            @@ "U+040C" :> "U+045C" @@ "U+040D" :> "U+045D"
            @@ "U+040E" :> "U+045E" @@ "U+040F" :> "U+045F"
            @@ "U+0410" :> "U+0430" @@ "U+0411" :> "U+0431"
            @@ "U+0412" :> "U+0432" @@ "U+0413" :> "U+0433"
            @@ "U+0414" :> "U+0434" @@ "U+0415" :> "U+0435"
            @@ "U+0416" :> "U+0436" @@ "U+0417" :> "U+0437"
            @@ "U+0418" :> "U+0438" @@ "U+0419" :> "U+0439"
            @@ "U+041A" :> "U+043A" @@ "U+041B" :> "U+043B"
            @@ "U+041C" :> "U+043C" @@ "U+041D" :> "U+043D"
            @@ "U+041E" :> "U+043E" @@ "U+041F" :> "U+043F"
            @@ "U+0420" :> "U+0440" @@ "U+0421" :> "U+0441"
            @@ "U+0422" :> "U+0442" @@ "U+0423" :> "U+0443"
            @@ "U+0424" :> "U+0444" @@ "U+0425" :> "U+0445"
        part9 ==
               "U+0426" :> "U+0446" @@ "U+0427" :> "U+0447"
            @@ "U+0428" :> "U+0448" @@ "U+0429" :> "U+0449"
            @@ "U+042A" :> "U+044A" @@ "U+042B" :> "U+044B"
            @@ "U+042C" :> "U+044C" @@ "U+042D" :> "U+044D"
            @@ "U+042E" :> "U+044E" @@ "U+042F" :> "U+044F"
            @@ "U+0460" :> "U+0461" @@ "U+0462" :> "U+0463"
            @@ "U+0464" :> "U+0465" @@ "U+0466" :> "U+0467"
            @@ "U+0468" :> "U+0469" @@ "U+046A" :> "U+046B"
            @@ "U+046C" :> "U+046D" @@ "U+046E" :> "U+046F"
            @@ "U+0470" :> "U+0471" @@ "U+0472" :> "U+0473"
            @@ "U+0474" :> "U+0475" @@ "U+0476" :> "U+0477"
            @@ "U+0478" :> "U+0479" @@ "U+047A" :> "U+047B"
            @@ "U+047C" :> "U+047D" @@ "U+047E" :> "U+047F"
            @@ "U+0480" :> "U+0481" @@ "U+048A" :> "U+048B"
            @@ "U+048C" :> "U+048D" @@ "U+048E" :> "U+048F"
            @@ "U+0490" :> "U+0491" @@ "U+0492" :> "U+0493"
            @@ "U+0494" :> "U+0495" @@ "U+0496" :> "U+0497"
            @@ "U+0498" :> "U+0499" @@ "U+049A" :> "U+049B"
            @@ "U+049C" :> "U+049D" @@ "U+049E" :> "U+049F"
            @@ "U+04A0" :> "U+04A1" @@ "U+04A2" :> "U+04A3"
        part10 ==
               "U+04A4" :> "U+04A5" @@ "U+04A6" :> "U+04A7"
            @@ "U+04A8" :> "U+04A9" @@ "U+04AA" :> "U+04AB"
            @@ "U+04AC" :> "U+04AD" @@ "U+04AE" :> "U+04AF"
            @@ "U+04B0" :> "U+04B1" @@ "U+04B2" :> "U+04B3"
            @@ "U+04B4" :> "U+04B5" @@ "U+04B6" :> "U+04B7"
            @@ "U+04B8" :> "U+04B9" @@ "U+04BA" :> "U+04BB"
            @@ "U+04BC" :> "U+04BD" @@ "U+04BE" :> "U+04BF"
            @@ "U+04C0" :> "U+04CF" @@ "U+04C1" :> "U+04C2"
            @@ "U+04C3" :> "U+04C4" @@ "U+04C5" :> "U+04C6"
            @@ "U+04C7" :> "U+04C8" @@ "U+04C9" :> "U+04CA"
            @@ "U+04CB" :> "U+04CC" @@ "U+04CD" :> "U+04CE"
            @@ "U+04D0" :> "U+04D1" @@ "U+04D2" :> "U+04D3"
            @@ "U+04D4" :> "U+04D5" @@ "U+04D6" :> "U+04D7"
            @@ "U+04D8" :> "U+04D9" @@ "U+04DA" :> "U+04DB"
            @@ "U+04DC" :> "U+04DD" @@ "U+04DE" :> "U+04DF"
            @@ "U+04E0" :> "U+04E1" @@ "U+04E2" :> "U+04E3"
            @@ "U+04E4" :> "U+04E5" @@ "U+04E6" :> "U+04E7"
            @@ "U+04E8" :> "U+04E9" @@ "U+04EA" :> "U+04EB"
            @@ "U+04EC" :> "U+04ED" @@ "U+04EE" :> "U+04EF"
            @@ "U+04F0" :> "U+04F1" @@ "U+04F2" :> "U+04F3"
        part11 ==
               "U+04F4" :> "U+04F5" @@ "U+04F6" :> "U+04F7"
            @@ "U+04F8" :> "U+04F9" @@ "U+04FA" :> "U+04FB"
            @@ "U+04FC" :> "U+04FD" @@ "U+04FE" :> "U+04FF"
            @@ "U+0500" :> "U+0501" @@ "U+0502" :> "U+0503"
            @@ "U+0504" :> "U+0505" @@ "U+0506" :> "U+0507"
            @@ "U+0508" :> "U+0509" @@ "U+050A" :> "U+050B"
            @@ "U+050C" :> "U+050D" @@ "U+050E" :> "U+050F"
            @@ "U+0510" :> "U+0511" @@ "U+0512" :> "U+0513"
            @@ "U+0514" :> "U+0515" @@ "U+0516" :> "U+0517"
            @@ "U+0518" :> "U+0519" @@ "U+051A" :> "U+051B"
            @@ "U+051C" :> "U+051D" @@ "U+051E" :> "U+051F"
            @@ "U+0520" :> "U+0521" @@ "U+0522" :> "U+0523"
            @@ "U+0524" :> "U+0525" @@ "U+0526" :> "U+0527"
            @@ "U+0528" :> "U+0529" @@ "U+052A" :> "U+052B"
            @@ "U+052C" :> "U+052D" @@ "U+052E" :> "U+052F"
            @@ "U+0531" :> "U+0561" @@ "U+0532" :> "U+0562"
            @@ "U+0533" :> "U+0563" @@ "U+0534" :> "U+0564"
            @@ "U+0535" :> "U+0565" @@ "U+0536" :> "U+0566"
            @@ "U+0537" :> "U+0567" @@ "U+0538" :> "U+0568"
            @@ "U+0539" :> "U+0569" @@ "U+053A" :> "U+056A"
        part12 ==
               "U+053B" :> "U+056B" @@ "U+053C" :> "U+056C"
            @@ "U+053D" :> "U+056D" @@ "U+053E" :> "U+056E"
            @@ "U+053F" :> "U+056F" @@ "U+0540" :> "U+0570"
            @@ "U+0541" :> "U+0571" @@ "U+0542" :> "U+0572"
            @@ "U+0543" :> "U+0573" @@ "U+0544" :> "U+0574"
            @@ "U+0545" :> "U+0575" @@ "U+0546" :> "U+0576"
            @@ "U+0547" :> "U+0577" @@ "U+0548" :> "U+0578"
            @@ "U+0549" :> "U+0579" @@ "U+054A" :> "U+057A"
            @@ "U+054B" :> "U+057B" @@ "U+054C" :> "U+057C"
            @@ "U+054D" :> "U+057D" @@ "U+054E" :> "U+057E"
            @@ "U+054F" :> "U+057F" @@ "U+0550" :> "U+0580"
            @@ "U+0551" :> "U+0581" @@ "U+0552" :> "U+0582"
            @@ "U+0553" :> "U+0583" @@ "U+0554" :> "U+0584"
            @@ "U+0555" :> "U+0585" @@ "U+0556" :> "U+0586"
            @@ "U+10A0" :> "U+2D00" @@ "U+10A1" :> "U+2D01"
            @@ "U+10A2" :> "U+2D02" @@ "U+10A3" :> "U+2D03"
            @@ "U+10A4" :> "U+2D04" @@ "U+10A5" :> "U+2D05"
            @@ "U+10A6" :> "U+2D06" @@ "U+10A7" :> "U+2D07"
            @@ "U+10A8" :> "U+2D08" @@ "U+10A9" :> "U+2D09"
            @@ "U+10AA" :> "U+2D0A" @@ "U+10AB" :> "U+2D0B"
        part13 ==
               "U+10AC" :> "U+2D0C" @@ "U+10AD" :> "U+2D0D"
            @@ "U+10AE" :> "U+2D0E" @@ "U+10AF" :> "U+2D0F"
            @@ "U+10B0" :> "U+2D10" @@ "U+10B1" :> "U+2D11"
            @@ "U+10B2" :> "U+2D12" @@ "U+10B3" :> "U+2D13"
            @@ "U+10B4" :> "U+2D14" @@ "U+10B5" :> "U+2D15"
            @@ "U+10B6" :> "U+2D16" @@ "U+10B7" :> "U+2D17"
            @@ "U+10B8" :> "U+2D18" @@ "U+10B9" :> "U+2D19"
            @@ "U+10BA" :> "U+2D1A" @@ "U+10BB" :> "U+2D1B"
            @@ "U+10BC" :> "U+2D1C" @@ "U+10BD" :> "U+2D1D"
            @@ "U+10BE" :> "U+2D1E" @@ "U+10BF" :> "U+2D1F"
            @@ "U+10C0" :> "U+2D20" @@ "U+10C1" :> "U+2D21"
            @@ "U+10C2" :> "U+2D22" @@ "U+10C3" :> "U+2D23"
            @@ "U+10C4" :> "U+2D24" @@ "U+10C5" :> "U+2D25"
            @@ "U+10C7" :> "U+2D27" @@ "U+10CD" :> "U+2D2D"
            @@ "U+13A0" :> "U+AB70" @@ "U+13A1" :> "U+AB71"
            @@ "U+13A2" :> "U+AB72" @@ "U+13A3" :> "U+AB73"
            @@ "U+13A4" :> "U+AB74" @@ "U+13A5" :> "U+AB75"
            @@ "U+13A6" :> "U+AB76" @@ "U+13A7" :> "U+AB77"
            @@ "U+13A8" :> "U+AB78" @@ "U+13A9" :> "U+AB79"
            @@ "U+13AA" :> "U+AB7A" @@ "U+13AB" :> "U+AB7B"
        part14 ==
               "U+13AC" :> "U+AB7C" @@ "U+13AD" :> "U+AB7D"
            @@ "U+13AE" :> "U+AB7E" @@ "U+13AF" :> "U+AB7F"
            @@ "U+13B0" :> "U+AB80" @@ "U+13B1" :> "U+AB81"
            @@ "U+13B2" :> "U+AB82" @@ "U+13B3" :> "U+AB83"
            @@ "U+13B4" :> "U+AB84" @@ "U+13B5" :> "U+AB85"
            @@ "U+13B6" :> "U+AB86" @@ "U+13B7" :> "U+AB87"
            @@ "U+13B8" :> "U+AB88" @@ "U+13B9" :> "U+AB89"
            @@ "U+13BA" :> "U+AB8A" @@ "U+13BB" :> "U+AB8B"
            @@ "U+13BC" :> "U+AB8C" @@ "U+13BD" :> "U+AB8D"
            @@ "U+13BE" :> "U+AB8E" @@ "U+13BF" :> "U+AB8F"
            @@ "U+13C0" :> "U+AB90" @@ "U+13C1" :> "U+AB91"
            @@ "U+13C2" :> "U+AB92" @@ "U+13C3" :> "U+AB93"
            @@ "U+13C4" :> "U+AB94" @@ "U+13C5" :> "U+AB95"
            @@ "U+13C6" :> "U+AB96" @@ "U+13C7" :> "U+AB97"
            @@ "U+13C8" :> "U+AB98" @@ "U+13C9" :> "U+AB99"
            @@ "U+13CA" :> "U+AB9A" @@ "U+13CB" :> "U+AB9B"
            @@ "U+13CC" :> "U+AB9C" @@ "U+13CD" :> "U+AB9D"
            @@ "U+13CE" :> "U+AB9E" @@ "U+13CF" :> "U+AB9F"
            @@ "U+13D0" :> "U+ABA0" @@ "U+13D1" :> "U+ABA1"
            @@ "U+13D2" :> "U+ABA2" @@ "U+13D3" :> "U+ABA3"
        part15 ==
               "U+13D4" :> "U+ABA4" @@ "U+13D5" :> "U+ABA5"
            @@ "U+13D6" :> "U+ABA6" @@ "U+13D7" :> "U+ABA7"
            @@ "U+13D8" :> "U+ABA8" @@ "U+13D9" :> "U+ABA9"
            @@ "U+13DA" :> "U+ABAA" @@ "U+13DB" :> "U+ABAB"
            @@ "U+13DC" :> "U+ABAC" @@ "U+13DD" :> "U+ABAD"
            @@ "U+13DE" :> "U+ABAE" @@ "U+13DF" :> "U+ABAF"
            @@ "U+13E0" :> "U+ABB0" @@ "U+13E1" :> "U+ABB1"
            @@ "U+13E2" :> "U+ABB2" @@ "U+13E3" :> "U+ABB3"
            @@ "U+13E4" :> "U+ABB4" @@ "U+13E5" :> "U+ABB5"
            @@ "U+13E6" :> "U+ABB6" @@ "U+13E7" :> "U+ABB7"
            @@ "U+13E8" :> "U+ABB8" @@ "U+13E9" :> "U+ABB9"
            @@ "U+13EA" :> "U+ABBA" @@ "U+13EB" :> "U+ABBB"
            @@ "U+13EC" :> "U+ABBC" @@ "U+13ED" :> "U+ABBD"
            @@ "U+13EE" :> "U+ABBE" @@ "U+13EF" :> "U+ABBF"
            @@ "U+13F0" :> "U+13F8" @@ "U+13F1" :> "U+13F9"
            @@ "U+13F2" :> "U+13FA" @@ "U+13F3" :> "U+13FB"
            @@ "U+13F4" :> "U+13FC" @@ "U+13F5" :> "U+13FD"
            @@ "U+1C89" :> "U+1C8A" @@ "U+1C90" :> "U+10D0"
            @@ "U+1C91" :> "U+10D1" @@ "U+1C92" :> "U+10D2"
            @@ "U+1C93" :> "U+10D3" @@ "U+1C94" :> "U+10D4"
        part16 ==
               "U+1C95" :> "U+10D5" @@ "U+1C96" :> "U+10D6"
            @@ "U+1C97" :> "U+10D7" @@ "U+1C98" :> "U+10D8"
            @@ "U+1C99" :> "U+10D9" @@ "U+1C9A" :> "U+10DA"
            @@ "U+1C9B" :> "U+10DB" @@ "U+1C9C" :> "U+10DC"
            @@ "U+1C9D" :> "U+10DD" @@ "U+1C9E" :> "U+10DE"
            @@ "U+1C9F" :> "U+10DF" @@ "U+1CA0" :> "U+10E0"
            @@ "U+1CA1" :> "U+10E1" @@ "U+1CA2" :> "U+10E2"
            @@ "U+1CA3" :> "U+10E3" @@ "U+1CA4" :> "U+10E4"
            @@ "U+1CA5" :> "U+10E5" @@ "U+1CA6" :> "U+10E6"
            @@ "U+1CA7" :> "U+10E7" @@ "U+1CA8" :> "U+10E8"
            @@ "U+1CA9" :> "U+10E9" @@ "U+1CAA" :> "U+10EA"
            @@ "U+1CAB" :> "U+10EB" @@ "U+1CAC" :> "U+10EC"
            @@ "U+1CAD" :> "U+10ED" @@ "U+1CAE" :> "U+10EE"
            @@ "U+1CAF" :> "U+10EF" @@ "U+1CB0" :> "U+10F0"
            @@ "U+1CB1" :> "U+10F1" @@ "U+1CB2" :> "U+10F2"
            @@ "U+1CB3" :> "U+10F3" @@ "U+1CB4" :> "U+10F4"
            @@ "U+1CB5" :> "U+10F5" @@ "U+1CB6" :> "U+10F6"
            @@ "U+1CB7" :> "U+10F7" @@ "U+1CB8" :> "U+10F8"
            @@ "U+1CB9" :> "U+10F9" @@ "U+1CBA" :> "U+10FA"
            @@ "U+1CBD" :> "U+10FD" @@ "U+1CBE" :> "U+10FE"
        part17 ==
               "U+1CBF" :> "U+10FF" @@ "U+1E00" :> "U+1E01"
            @@ "U+1E02" :> "U+1E03" @@ "U+1E04" :> "U+1E05"
            @@ "U+1E06" :> "U+1E07" @@ "U+1E08" :> "U+1E09"
            @@ "U+1E0A" :> "U+1E0B" @@ "U+1E0C" :> "U+1E0D"
            @@ "U+1E0E" :> "U+1E0F" @@ "U+1E10" :> "U+1E11"
            @@ "U+1E12" :> "U+1E13" @@ "U+1E14" :> "U+1E15"
            @@ "U+1E16" :> "U+1E17" @@ "U+1E18" :> "U+1E19"
            @@ "U+1E1A" :> "U+1E1B" @@ "U+1E1C" :> "U+1E1D"
            @@ "U+1E1E" :> "U+1E1F" @@ "U+1E20" :> "U+1E21"
            @@ "U+1E22" :> "U+1E23" @@ "U+1E24" :> "U+1E25"
            @@ "U+1E26" :> "U+1E27" @@ "U+1E28" :> "U+1E29"
            @@ "U+1E2A" :> "U+1E2B" @@ "U+1E2C" :> "U+1E2D"
            @@ "U+1E2E" :> "U+1E2F" @@ "U+1E30" :> "U+1E31"
            @@ "U+1E32" :> "U+1E33" @@ "U+1E34" :> "U+1E35"
            @@ "U+1E36" :> "U+1E37" @@ "U+1E38" :> "U+1E39"
            @@ "U+1E3A" :> "U+1E3B" @@ "U+1E3C" :> "U+1E3D"
            @@ "U+1E3E" :> "U+1E3F" @@ "U+1E40" :> "U+1E41"
            @@ "U+1E42" :> "U+1E43" @@ "U+1E44" :> "U+1E45"
            @@ "U+1E46" :> "U+1E47" @@ "U+1E48" :> "U+1E49"
            @@ "U+1E4A" :> "U+1E4B" @@ "U+1E4C" :> "U+1E4D"
        part18 ==
               "U+1E4E" :> "U+1E4F" @@ "U+1E50" :> "U+1E51"
            @@ "U+1E52" :> "U+1E53" @@ "U+1E54" :> "U+1E55"
            @@ "U+1E56" :> "U+1E57" @@ "U+1E58" :> "U+1E59"
            @@ "U+1E5A" :> "U+1E5B" @@ "U+1E5C" :> "U+1E5D"
            @@ "U+1E5E" :> "U+1E5F" @@ "U+1E60" :> "U+1E61"
            @@ "U+1E62" :> "U+1E63" @@ "U+1E64" :> "U+1E65"
            @@ "U+1E66" :> "U+1E67" @@ "U+1E68" :> "U+1E69"
            @@ "U+1E6A" :> "U+1E6B" @@ "U+1E6C" :> "U+1E6D"
            @@ "U+1E6E" :> "U+1E6F" @@ "U+1E70" :> "U+1E71"
            @@ "U+1E72" :> "U+1E73" @@ "U+1E74" :> "U+1E75"
            @@ "U+1E76" :> "U+1E77" @@ "U+1E78" :> "U+1E79"
            @@ "U+1E7A" :> "U+1E7B" @@ "U+1E7C" :> "U+1E7D"
            @@ "U+1E7E" :> "U+1E7F" @@ "U+1E80" :> "U+1E81"
            @@ "U+1E82" :> "U+1E83" @@ "U+1E84" :> "U+1E85"
            @@ "U+1E86" :> "U+1E87" @@ "U+1E88" :> "U+1E89"
            @@ "U+1E8A" :> "U+1E8B" @@ "U+1E8C" :> "U+1E8D"
            @@ "U+1E8E" :> "U+1E8F" @@ "U+1E90" :> "U+1E91"
            @@ "U+1E92" :> "U+1E93" @@ "U+1E94" :> "U+1E95"
            @@ "U+1E9E" :> "U+00DF" @@ "U+1EA0" :> "U+1EA1"
            @@ "U+1EA2" :> "U+1EA3" @@ "U+1EA4" :> "U+1EA5"
        part19 ==
               "U+1EA6" :> "U+1EA7" @@ "U+1EA8" :> "U+1EA9"
            @@ "U+1EAA" :> "U+1EAB" @@ "U+1EAC" :> "U+1EAD"
            @@ "U+1EAE" :> "U+1EAF" @@ "U+1EB0" :> "U+1EB1"
            @@ "U+1EB2" :> "U+1EB3" @@ "U+1EB4" :> "U+1EB5"
            @@ "U+1EB6" :> "U+1EB7" @@ "U+1EB8" :> "U+1EB9"
            @@ "U+1EBA" :> "U+1EBB" @@ "U+1EBC" :> "U+1EBD"
            @@ "U+1EBE" :> "U+1EBF" @@ "U+1EC0" :> "U+1EC1"
            @@ "U+1EC2" :> "U+1EC3" @@ "U+1EC4" :> "U+1EC5"
            @@ "U+1EC6" :> "U+1EC7" @@ "U+1EC8" :> "U+1EC9"
            @@ "U+1ECA" :> "U+1ECB" @@ "U+1ECC" :> "U+1ECD"
            @@ "U+1ECE" :> "U+1ECF" @@ "U+1ED0" :> "U+1ED1"
            @@ "U+1ED2" :> "U+1ED3" @@ "U+1ED4" :> "U+1ED5"
            @@ "U+1ED6" :> "U+1ED7" @@ "U+1ED8" :> "U+1ED9"
            @@ "U+1EDA" :> "U+1EDB" @@ "U+1EDC" :> "U+1EDD"
            @@ "U+1EDE" :> "U+1EDF" @@ "U+1EE0" :> "U+1EE1"
            @@ "U+1EE2" :> "U+1EE3" @@ "U+1EE4" :> "U+1EE5"
            @@ "U+1EE6" :> "U+1EE7" @@ "U+1EE8" :> "U+1EE9"
            @@ "U+1EEA" :> "U+1EEB" @@ "U+1EEC" :> "U+1EED"
            @@ "U+1EEE" :> "U+1EEF" @@ "U+1EF0" :> "U+1EF1"
            @@ "U+1EF2" :> "U+1EF3" @@ "U+1EF4" :> "U+1EF5"
        part20 ==
               "U+1EF6" :> "U+1EF7" @@ "U+1EF8" :> "U+1EF9"
            @@ "U+1EFA" :> "U+1EFB" @@ "U+1EFC" :> "U+1EFD"
            @@ "U+1EFE" :> "U+1EFF" @@ "U+1F08" :> "U+1F00"
            @@ "U+1F09" :> "U+1F01" @@ "U+1F0A" :> "U+1F02"
            @@ "U+1F0B" :> "U+1F03" @@ "U+1F0C" :> "U+1F04"
            @@ "U+1F0D" :> "U+1F05" @@ "U+1F0E" :> "U+1F06"
            @@ "U+1F0F" :> "U+1F07" @@ "U+1F18" :> "U+1F10"
            @@ "U+1F19" :> "U+1F11" @@ "U+1F1A" :> "U+1F12"
            @@ "U+1F1B" :> "U+1F13" @@ "U+1F1C" :> "U+1F14"
            @@ "U+1F1D" :> "U+1F15" @@ "U+1F28" :> "U+1F20"
            @@ "U+1F29" :> "U+1F21" @@ "U+1F2A" :> "U+1F22"
            @@ "U+1F2B" :> "U+1F23" @@ "U+1F2C" :> "U+1F24"
            @@ "U+1F2D" :> "U+1F25" @@ "U+1F2E" :> "U+1F26"
            @@ "U+1F2F" :> "U+1F27" @@ "U+1F38" :> "U+1F30"
            @@ "U+1F39" :> "U+1F31" @@ "U+1F3A" :> "U+1F32"
            @@ "U+1F3B" :> "U+1F33" @@ "U+1F3C" :> "U+1F34"
            @@ "U+1F3D" :> "U+1F35" @@ "U+1F3E" :> "U+1F36"
            @@ "U+1F3F" :> "U+1F37" @@ "U+1F48" :> "U+1F40"
            @@ "U+1F49" :> "U+1F41" @@ "U+1F4A" :> "U+1F42"
            @@ "U+1F4B" :> "U+1F43" @@ "U+1F4C" :> "U+1F44"
        part21 ==
               "U+1F4D" :> "U+1F45" @@ "U+1F59" :> "U+1F51"
            @@ "U+1F5B" :> "U+1F53" @@ "U+1F5D" :> "U+1F55"
            @@ "U+1F5F" :> "U+1F57" @@ "U+1F68" :> "U+1F60"
            @@ "U+1F69" :> "U+1F61" @@ "U+1F6A" :> "U+1F62"
            @@ "U+1F6B" :> "U+1F63" @@ "U+1F6C" :> "U+1F64"
            @@ "U+1F6D" :> "U+1F65" @@ "U+1F6E" :> "U+1F66"
            @@ "U+1F6F" :> "U+1F67" @@ "U+1F88" :> "U+1F80"
            @@ "U+1F89" :> "U+1F81" @@ "U+1F8A" :> "U+1F82"
            @@ "U+1F8B" :> "U+1F83" @@ "U+1F8C" :> "U+1F84"
            @@ "U+1F8D" :> "U+1F85" @@ "U+1F8E" :> "U+1F86"
            @@ "U+1F8F" :> "U+1F87" @@ "U+1F98" :> "U+1F90"
            @@ "U+1F99" :> "U+1F91" @@ "U+1F9A" :> "U+1F92"
            @@ "U+1F9B" :> "U+1F93" @@ "U+1F9C" :> "U+1F94"
            @@ "U+1F9D" :> "U+1F95" @@ "U+1F9E" :> "U+1F96"
            @@ "U+1F9F" :> "U+1F97" @@ "U+1FA8" :> "U+1FA0"
            @@ "U+1FA9" :> "U+1FA1" @@ "U+1FAA" :> "U+1FA2"
            @@ "U+1FAB" :> "U+1FA3" @@ "U+1FAC" :> "U+1FA4"
            @@ "U+1FAD" :> "U+1FA5" @@ "U+1FAE" :> "U+1FA6"
            @@ "U+1FAF" :> "U+1FA7" @@ "U+1FB8" :> "U+1FB0"
            @@ "U+1FB9" :> "U+1FB1" @@ "U+1FBA" :> "U+1F70"
        part22 ==
               "U+1FBB" :> "U+1F71" @@ "U+1FBC" :> "U+1FB3"
            @@ "U+1FC8" :> "U+1F72" @@ "U+1FC9" :> "U+1F73"
            @@ "U+1FCA" :> "U+1F74" @@ "U+1FCB" :> "U+1F75"
            @@ "U+1FCC" :> "U+1FC3" @@ "U+1FD8" :> "U+1FD0"
            @@ "U+1FD9" :> "U+1FD1" @@ "U+1FDA" :> "U+1F76"
            @@ "U+1FDB" :> "U+1F77" @@ "U+1FE8" :> "U+1FE0"
            @@ "U+1FE9" :> "U+1FE1" @@ "U+1FEA" :> "U+1F7A"
            @@ "U+1FEB" :> "U+1F7B" @@ "U+1FEC" :> "U+1FE5"
            @@ "U+1FF8" :> "U+1F78" @@ "U+1FF9" :> "U+1F79"
            @@ "U+1FFA" :> "U+1F7C" @@ "U+1FFB" :> "U+1F7D"
            @@ "U+1FFC" :> "U+1FF3" @@ "U+2126" :> "U+03C9"
            @@ "U+212A" :> "k" @@ "U+212B" :> "U+00E5"
            @@ "U+2132" :> "U+214E" @@ "U+2160" :> "U+2170"
            @@ "U+2161" :> "U+2171" @@ "U+2162" :> "U+2172"
            @@ "U+2163" :> "U+2173" @@ "U+2164" :> "U+2174"
            @@ "U+2165" :> "U+2175" @@ "U+2166" :> "U+2176"
            @@ "U+2167" :> "U+2177" @@ "U+2168" :> "U+2178"
            @@ "U+2169" :> "U+2179" @@ "U+216A" :> "U+217A"
            @@ "U+216B" :> "U+217B" @@ "U+216C" :> "U+217C"
            @@ "U+216D" :> "U+217D" @@ "U+216E" :> "U+217E"
        part23 ==
               "U+216F" :> "U+217F" @@ "U+2183" :> "U+2184"
            @@ "U+24B6" :> "U+24D0" @@ "U+24B7" :> "U+24D1"
            @@ "U+24B8" :> "U+24D2" @@ "U+24B9" :> "U+24D3"
            @@ "U+24BA" :> "U+24D4" @@ "U+24BB" :> "U+24D5"
            @@ "U+24BC" :> "U+24D6" @@ "U+24BD" :> "U+24D7"
            @@ "U+24BE" :> "U+24D8" @@ "U+24BF" :> "U+24D9"
            @@ "U+24C0" :> "U+24DA" @@ "U+24C1" :> "U+24DB"
            @@ "U+24C2" :> "U+24DC" @@ "U+24C3" :> "U+24DD"
            @@ "U+24C4" :> "U+24DE" @@ "U+24C5" :> "U+24DF"
            @@ "U+24C6" :> "U+24E0" @@ "U+24C7" :> "U+24E1"
            @@ "U+24C8" :> "U+24E2" @@ "U+24C9" :> "U+24E3"
            @@ "U+24CA" :> "U+24E4" @@ "U+24CB" :> "U+24E5"
            @@ "U+24CC" :> "U+24E6" @@ "U+24CD" :> "U+24E7"
            @@ "U+24CE" :> "U+24E8" @@ "U+24CF" :> "U+24E9"
            @@ "U+2C00" :> "U+2C30" @@ "U+2C01" :> "U+2C31"
            @@ "U+2C02" :> "U+2C32" @@ "U+2C03" :> "U+2C33"
            @@ "U+2C04" :> "U+2C34" @@ "U+2C05" :> "U+2C35"
            @@ "U+2C06" :> "U+2C36" @@ "U+2C07" :> "U+2C37"
            @@ "U+2C08" :> "U+2C38" @@ "U+2C09" :> "U+2C39"
            @@ "U+2C0A" :> "U+2C3A" @@ "U+2C0B" :> "U+2C3B"
        part24 ==
               "U+2C0C" :> "U+2C3C" @@ "U+2C0D" :> "U+2C3D"
            @@ "U+2C0E" :> "U+2C3E" @@ "U+2C0F" :> "U+2C3F"
            @@ "U+2C10" :> "U+2C40" @@ "U+2C11" :> "U+2C41"
            @@ "U+2C12" :> "U+2C42" @@ "U+2C13" :> "U+2C43"
            @@ "U+2C14" :> "U+2C44" @@ "U+2C15" :> "U+2C45"
            @@ "U+2C16" :> "U+2C46" @@ "U+2C17" :> "U+2C47"
            @@ "U+2C18" :> "U+2C48" @@ "U+2C19" :> "U+2C49"
            @@ "U+2C1A" :> "U+2C4A" @@ "U+2C1B" :> "U+2C4B"
            @@ "U+2C1C" :> "U+2C4C" @@ "U+2C1D" :> "U+2C4D"
            @@ "U+2C1E" :> "U+2C4E" @@ "U+2C1F" :> "U+2C4F"
            @@ "U+2C20" :> "U+2C50" @@ "U+2C21" :> "U+2C51"
            @@ "U+2C22" :> "U+2C52" @@ "U+2C23" :> "U+2C53"
            @@ "U+2C24" :> "U+2C54" @@ "U+2C25" :> "U+2C55"
            @@ "U+2C26" :> "U+2C56" @@ "U+2C27" :> "U+2C57"
            @@ "U+2C28" :> "U+2C58" @@ "U+2C29" :> "U+2C59"
            @@ "U+2C2A" :> "U+2C5A" @@ "U+2C2B" :> "U+2C5B"
            @@ "U+2C2C" :> "U+2C5C" @@ "U+2C2D" :> "U+2C5D"
            @@ "U+2C2E" :> "U+2C5E" @@ "U+2C2F" :> "U+2C5F"
            @@ "U+2C60" :> "U+2C61" @@ "U+2C62" :> "U+026B"
            @@ "U+2C63" :> "U+1D7D" @@ "U+2C64" :> "U+027D"
        part25 ==
               "U+2C67" :> "U+2C68" @@ "U+2C69" :> "U+2C6A"
            @@ "U+2C6B" :> "U+2C6C" @@ "U+2C6D" :> "U+0251"
            @@ "U+2C6E" :> "U+0271" @@ "U+2C6F" :> "U+0250"
            @@ "U+2C70" :> "U+0252" @@ "U+2C72" :> "U+2C73"
            @@ "U+2C75" :> "U+2C76" @@ "U+2C7E" :> "U+023F"
            @@ "U+2C7F" :> "U+0240" @@ "U+2C80" :> "U+2C81"
            @@ "U+2C82" :> "U+2C83" @@ "U+2C84" :> "U+2C85"
            @@ "U+2C86" :> "U+2C87" @@ "U+2C88" :> "U+2C89"
            @@ "U+2C8A" :> "U+2C8B" @@ "U+2C8C" :> "U+2C8D"
            @@ "U+2C8E" :> "U+2C8F" @@ "U+2C90" :> "U+2C91"
            @@ "U+2C92" :> "U+2C93" @@ "U+2C94" :> "U+2C95"
            @@ "U+2C96" :> "U+2C97" @@ "U+2C98" :> "U+2C99"
            @@ "U+2C9A" :> "U+2C9B" @@ "U+2C9C" :> "U+2C9D"
            @@ "U+2C9E" :> "U+2C9F" @@ "U+2CA0" :> "U+2CA1"
            @@ "U+2CA2" :> "U+2CA3" @@ "U+2CA4" :> "U+2CA5"
            @@ "U+2CA6" :> "U+2CA7" @@ "U+2CA8" :> "U+2CA9"
            @@ "U+2CAA" :> "U+2CAB" @@ "U+2CAC" :> "U+2CAD"
            @@ "U+2CAE" :> "U+2CAF" @@ "U+2CB0" :> "U+2CB1"
            @@ "U+2CB2" :> "U+2CB3" @@ "U+2CB4" :> "U+2CB5"
            @@ "U+2CB6" :> "U+2CB7" @@ "U+2CB8" :> "U+2CB9"
        part26 ==
               "U+2CBA" :> "U+2CBB" @@ "U+2CBC" :> "U+2CBD"
            @@ "U+2CBE" :> "U+2CBF" @@ "U+2CC0" :> "U+2CC1"
            @@ "U+2CC2" :> "U+2CC3" @@ "U+2CC4" :> "U+2CC5"
            @@ "U+2CC6" :> "U+2CC7" @@ "U+2CC8" :> "U+2CC9"
            @@ "U+2CCA" :> "U+2CCB" @@ "U+2CCC" :> "U+2CCD"
            @@ "U+2CCE" :> "U+2CCF" @@ "U+2CD0" :> "U+2CD1"
            @@ "U+2CD2" :> "U+2CD3" @@ "U+2CD4" :> "U+2CD5"
            @@ "U+2CD6" :> "U+2CD7" @@ "U+2CD8" :> "U+2CD9"
            @@ "U+2CDA" :> "U+2CDB" @@ "U+2CDC" :> "U+2CDD"
            @@ "U+2CDE" :> "U+2CDF" @@ "U+2CE0" :> "U+2CE1"
            @@ "U+2CE2" :> "U+2CE3" @@ "U+2CEB" :> "U+2CEC"
            @@ "U+2CED" :> "U+2CEE" @@ "U+2CF2" :> "U+2CF3"
            @@ "U+A640" :> "U+A641" @@ "U+A642" :> "U+A643"
            @@ "U+A644" :> "U+A645" @@ "U+A646" :> "U+A647"
            @@ "U+A648" :> "U+A649" @@ "U+A64A" :> "U+A64B"
            @@ "U+A64C" :> "U+A64D" @@ "U+A64E" :> "U+A64F"
            @@ "U+A650" :> "U+A651" @@ "U+A652" :> "U+A653"
            @@ "U+A654" :> "U+A655" @@ "U+A656" :> "U+A657"
            @@ "U+A658" :> "U+A659" @@ "U+A65A" :> "U+A65B"
            @@ "U+A65C" :> "U+A65D" @@ "U+A65E" :> "U+A65F"
        part27 ==
               "U+A660" :> "U+A661" @@ "U+A662" :> "U+A663"
            @@ "U+A664" :> "U+A665" @@ "U+A666" :> "U+A667"
            @@ "U+A668" :> "U+A669" @@ "U+A66A" :> "U+A66B"
            @@ "U+A66C" :> "U+A66D" @@ "U+A680" :> "U+A681"
            @@ "U+A682" :> "U+A683" @@ "U+A684" :> "U+A685"
            @@ "U+A686" :> "U+A687" @@ "U+A688" :> "U+A689"
            @@ "U+A68A" :> "U+A68B" @@ "U+A68C" :> "U+A68D"
            @@ "U+A68E" :> "U+A68F" @@ "U+A690" :> "U+A691"
            @@ "U+A692" :> "U+A693" @@ "U+A694" :> "U+A695"
            @@ "U+A696" :> "U+A697" @@ "U+A698" :> "U+A699"
            @@ "U+A69A" :> "U+A69B" @@ "U+A722" :> "U+A723"
            @@ "U+A724" :> "U+A725" @@ "U+A726" :> "U+A727"
            @@ "U+A728" :> "U+A729" @@ "U+A72A" :> "U+A72B"
            @@ "U+A72C" :> "U+A72D" @@ "U+A72E" :> "U+A72F"
            @@ "U+A732" :> "U+A733" @@ "U+A734" :> "U+A735"
            @@ "U+A736" :> "U+A737" @@ "U+A738" :> "U+A739"
            @@ "U+A73A" :> "U+A73B" @@ "U+A73C" :> "U+A73D"
            @@ "U+A73E" :> "U+A73F" @@ "U+A740" :> "U+A741"
            @@ "U+A742" :> "U+A743" @@ "U+A744" :> "U+A745"
            @@ "U+A746" :> "U+A747" @@ "U+A748" :> "U+A749"
        part28 ==
               "U+A74A" :> "U+A74B" @@ "U+A74C" :> "U+A74D"
            @@ "U+A74E" :> "U+A74F" @@ "U+A750" :> "U+A751"
            @@ "U+A752" :> "U+A753" @@ "U+A754" :> "U+A755"
            @@ "U+A756" :> "U+A757" @@ "U+A758" :> "U+A759"
            @@ "U+A75A" :> "U+A75B" @@ "U+A75C" :> "U+A75D"
            @@ "U+A75E" :> "U+A75F" @@ "U+A760" :> "U+A761"
            @@ "U+A762" :> "U+A763" @@ "U+A764" :> "U+A765"
            @@ "U+A766" :> "U+A767" @@ "U+A768" :> "U+A769"
            @@ "U+A76A" :> "U+A76B" @@ "U+A76C" :> "U+A76D"
            @@ "U+A76E" :> "U+A76F" @@ "U+A779" :> "U+A77A"
            @@ "U+A77B" :> "U+A77C" @@ "U+A77D" :> "U+1D79"
            @@ "U+A77E" :> "U+A77F" @@ "U+A780" :> "U+A781"
            @@ "U+A782" :> "U+A783" @@ "U+A784" :> "U+A785"
            @@ "U+A786" :> "U+A787" @@ "U+A78B" :> "U+A78C"
            @@ "U+A78D" :> "U+0265" @@ "U+A790" :> "U+A791"
            @@ "U+A792" :> "U+A793" @@ "U+A796" :> "U+A797"
            @@ "U+A798" :> "U+A799" @@ "U+A79A" :> "U+A79B"
            @@ "U+A79C" :> "U+A79D" @@ "U+A79E" :> "U+A79F"
            @@ "U+A7A0" :> "U+A7A1" @@ "U+A7A2" :> "U+A7A3"
            @@ "U+A7A4" :> "U+A7A5" @@ "U+A7A6" :> "U+A7A7"
        part29 ==
               "U+A7A8" :> "U+A7A9" @@ "U+A7AA" :> "U+0266"
            @@ "U+A7AB" :> "U+025C" @@ "U+A7AC" :> "U+0261"
            @@ "U+A7AD" :> "U+026C" @@ "U+A7AE" :> "U+026A"
            @@ "U+A7B0" :> "U+029E" @@ "U+A7B1" :> "U+0287"
            @@ "U+A7B2" :> "U+029D" @@ "U+A7B3" :> "U+AB53"
            @@ "U+A7B4" :> "U+A7B5" @@ "U+A7B6" :> "U+A7B7"
            @@ "U+A7B8" :> "U+A7B9" @@ "U+A7BA" :> "U+A7BB"
            @@ "U+A7BC" :> "U+A7BD" @@ "U+A7BE" :> "U+A7BF"
            @@ "U+A7C0" :> "U+A7C1" @@ "U+A7C2" :> "U+A7C3"
            @@ "U+A7C4" :> "U+A794" @@ "U+A7C5" :> "U+0282"
            @@ "U+A7C6" :> "U+1D8E" @@ "U+A7C7" :> "U+A7C8"
            @@ "U+A7C9" :> "U+A7CA" @@ "U+A7CB" :> "U+0264"
            @@ "U+A7CC" :> "U+A7CD" @@ "U+A7CE" :> "U+A7CF"
            @@ "U+A7D0" :> "U+A7D1" @@ "U+A7D2" :> "U+A7D3"
            @@ "U+A7D4" :> "U+A7D5" @@ "U+A7D6" :> "U+A7D7"
            @@ "U+A7D8" :> "U+A7D9" @@ "U+A7DA" :> "U+A7DB"
            @@ "U+A7DC" :> "U+019B" @@ "U+A7F5" :> "U+A7F6"
            @@ "U+FF21" :> "U+FF41" @@ "U+FF22" :> "U+FF42"
            @@ "U+FF23" :> "U+FF43" @@ "U+FF24" :> "U+FF44"
            @@ "U+FF25" :> "U+FF45" @@ "U+FF26" :> "U+FF46"
        part30 ==
               "U+FF27" :> "U+FF47" @@ "U+FF28" :> "U+FF48"
            @@ "U+FF29" :> "U+FF49" @@ "U+FF2A" :> "U+FF4A"
            @@ "U+FF2B" :> "U+FF4B" @@ "U+FF2C" :> "U+FF4C"
            @@ "U+FF2D" :> "U+FF4D" @@ "U+FF2E" :> "U+FF4E"
            @@ "U+FF2F" :> "U+FF4F" @@ "U+FF30" :> "U+FF50"
            @@ "U+FF31" :> "U+FF51" @@ "U+FF32" :> "U+FF52"
            @@ "U+FF33" :> "U+FF53" @@ "U+FF34" :> "U+FF54"
            @@ "U+FF35" :> "U+FF55" @@ "U+FF36" :> "U+FF56"
            @@ "U+FF37" :> "U+FF57" @@ "U+FF38" :> "U+FF58"
            @@ "U+FF39" :> "U+FF59" @@ "U+FF3A" :> "U+FF5A"
    IN  part1 @@ part2 @@ part3 @@ part4 @@ part5 @@ part6 @@ part7 @@ part8
        @@ part9 @@ part10 @@ part11 @@ part12 @@ part13 @@ part14 @@ part15
        @@ part16 @@ part17 @@ part18 @@ part19 @@ part20 @@ part21 @@ part22
        @@ part23 @@ part24 @@ part25 @@ part26 @@ part27 @@ part28 @@ part29
        @@ part30

\* The same for the letters beyond U+FFFF, which a string holds as a high and
\* a low surrogate: each pair with the pair toLowerCase changes it into.
LowerSurrogatePairs ==
    LET part1 ==
               <<"U+D801", "U+DC00">> :> <<"U+D801", "U+DC28">>
            @@ <<"U+D801", "U+DC01">> :> <<"U+D801", "U+DC29">>
            @@ <<"U+D801", "U+DC02">> :> <<"U+D801", "U+DC2A">>
            @@ <<"U+D801", "U+DC03">> :> <<"U+D801", "U+DC2B">>
            @@ <<"U+D801", "U+DC04">> :> <<"U+D801", "U+DC2C">>
            @@ <<"U+D801", "U+DC05">> :> <<"U+D801", "U+DC2D">>
            @@ <<"U+D801", "U+DC06">> :> <<"U+D801", "U+DC2E">>
            @@ <<"U+D801", "U+DC07">> :> <<"U+D801", "U+DC2F">>
            @@ <<"U+D801", "U+DC08">> :> <<"U+D801", "U+DC30">>
            @@ <<"U+D801", "U+DC09">> :> <<"U+D801", "U+DC31">>
            @@ <<"U+D801", "U+DC0A">> :> <<"U+D801", "U+DC32">>
            @@ <<"U+D801", "U+DC0B">> :> <<"U+D801", "U+DC33">>
            @@ <<"U+D801", "U+DC0C">> :> <<"U+D801", "U+DC34">>
            @@ <<"U+D801", "U+DC0D">> :> <<"U+D801", "U+DC35">>
            @@ <<"U+D801", "U+DC0E">> :> <<"U+D801", "U+DC36">>
            @@ <<"U+D801", "U+DC0F">> :> <<"U+D801", "U+DC37">>
            @@ <<"U+D801", "U+DC10">> :> <<"U+D801", "U+DC38">>
            @@ <<"U+D801", "U+DC11">> :> <<"U+D801", "U+DC39">>
            @@ <<"U+D801", "U+DC12">> :> <<"U+D801", "U+DC3A">>
            @@ <<"U+D801", "U+DC13">> :> <<"U+D801", "U+DC3B">>
            @@ <<"U+D801", "U+DC14">> :> <<"U+D801", "U+DC3C">>
            @@ <<"U+D801", "U+DC15">> :> <<"U+D801", "U+DC3D">>
            @@ <<"U+D801", "U+DC16">> :> <<"U+D801", "U+DC3E">>
            @@ <<"U+D801", "U+DC17">> :> <<"U+D801", "U+DC3F">>
            @@ <<"U+D801", "U+DC18">> :> <<"U+D801", "U+DC40">>
            @@ <<"U+D801", "U+DC19">> :> <<"U+D801", "U+DC41">>
            @@ <<"U+D801", "U+DC1A">> :> <<"U+D801", "U+DC42">>
            @@ <<"U+D801", "U+DC1B">> :> <<"U+D801", "U+DC43">>
            @@ <<"U+D801", "U+DC1C">> :> <<"U+D801", "U+DC44">>
            @@ <<"U+D801", "U+DC1D">> :> <<"U+D801", "U+DC45">>
            @@ <<"U+D801", "U+DC1E">> :> <<"U+D801", "U+DC46">>
            @@ <<"U+D801", "U+DC1F">> :> <<"U+D801", "U+DC47">>
            @@ <<"U+D801", "U+DC20">> :> <<"U+D801", "U+DC48">>
            @@ <<"U+D801", "U+DC21">> :> <<"U+D801", "U+DC49">>
            @@ <<"U+D801", "U+DC22">> :> <<"U+D801", "U+DC4A">>
            @@ <<"U+D801", "U+DC23">> :> <<"U+D801", "U+DC4B">>
            @@ <<"U+D801", "U+DC24">> :> <<"U+D801", "U+DC4C">>
            @@ <<"U+D801", "U+DC25">> :> <<"U+D801", "U+DC4D">>
            @@ <<"U+D801", "U+DC26">> :> <<"U+D801", "U+DC4E">>
            @@ <<"U+D801", "U+DC27">> :> <<"U+D801", "U+DC4F">>
        part2 ==
               <<"U+D801", "U+DCB0">> :> <<"U+D801", "U+DCD8">>
            @@ <<"U+D801", "U+DCB1">> :> <<"U+D801", "U+DCD9">>
            @@ <<"U+D801", "U+DCB2">> :> <<"U+D801", "U+DCDA">>
            @@ <<"U+D801", "U+DCB3">> :> <<"U+D801", "U+DCDB">>
            @@ <<"U+D801", "U+DCB4">> :> <<"U+D801", "U+DCDC">>
            @@ <<"U+D801", "U+DCB5">> :> <<"U+D801", "U+DCDD">>
            @@ <<"U+D801", "U+DCB6">> :> <<"U+D801", "U+DCDE">>
            @@ <<"U+D801", "U+DCB7">> :> <<"U+D801", "U+DCDF">>
            @@ <<"U+D801", "U+DCB8">> :> <<"U+D801", "U+DCE0">>
            @@ <<"U+D801", "U+DCB9">> :> <<"U+D801", "U+DCE1">>
            @@ <<"U+D801", "U+DCBA">> :> <<"U+D801", "U+DCE2">>
            @@ <<"U+D801", "U+DCBB">> :> <<"U+D801", "U+DCE3">>
            @@ <<"U+D801", "U+DCBC">> :> <<"U+D801", "U+DCE4">>
            @@ <<"U+D801", "U+DCBD">> :> <<"U+D801", "U+DCE5">>
            @@ <<"U+D801", "U+DCBE">> :> <<"U+D801", "U+DCE6">>
            @@ <<"U+D801", "U+DCBF">> :> <<"U+D801", "U+DCE7">>
            @@ <<"U+D801", "U+DCC0">> :> <<"U+D801", "U+DCE8">>
            @@ <<"U+D801", "U+DCC1">> :> <<"U+D801", "U+DCE9">>
            @@ <<"U+D801", "U+DCC2">> :> <<"U+D801", "U+DCEA">>
            @@ <<"U+D801", "U+DCC3">> :> <<"U+D801", "U+DCEB">>
            @@ <<"U+D801", "U+DCC4">> :> <<"U+D801", "U+DCEC">>
            @@ <<"U+D801", "U+DCC5">> :> <<"U+D801", "U+DCED">>
            @@ <<"U+D801", "U+DCC6">> :> <<"U+D801", "U+DCEE">>
            @@ <<"U+D801", "U+DCC7">> :> <<"U+D801", "U+DCEF">>
            @@ <<"U+D801", "U+DCC8">> :> <<"U+D801", "U+DCF0">>
            @@ <<"U+D801", "U+DCC9">> :> <<"U+D801", "U+DCF1">>
            @@ <<"U+D801", "U+DCCA">> :> <<"U+D801", "U+DCF2">>
            @@ <<"U+D801", "U+DCCB">> :> <<"U+D801", "U+DCF3">>
            @@ <<"U+D801", "U+DCCC">> :> <<"U+D801", "U+DCF4">>
            @@ <<"U+D801", "U+DCCD">> :> <<"U+D801", "U+DCF5">>
            @@ <<"U+D801", "U+DCCE">> :> <<"U+D801", "U+DCF6">>
            @@ <<"U+D801", "U+DCCF">> :> <<"U+D801", "U+DCF7">>
            @@ <<"U+D801", "U+DCD0">> :> <<"U+D801", "U+DCF8">>
            @@ <<"U+D801", "U+DCD1">> :> <<"U+D801", "U+DCF9">>
            @@ <<"U+D801", "U+DCD2">> :> <<"U+D801", "U+DCFA">>
            @@ <<"U+D801", "U+DCD3">> :> <<"U+D801", "U+DCFB">>
            @@ <<"U+D801", "U+DD70">> :> <<"U+D801", "U+DD97">>
            @@ <<"U+D801", "U+DD71">> :> <<"U+D801", "U+DD98">>
            @@ <<"U+D801", "U+DD72">> :> <<"U+D801", "U+DD99">>
            @@ <<"U+D801", "U+DD73">> :> <<"U+D801", "U+DD9A">>
        part3 ==
               <<"U+D801", "U+DD74">> :> <<"U+D801", "U+DD9B">>
            @@ <<"U+D801", "U+DD75">> :> <<"U+D801", "U+DD9C">>
            @@ <<"U+D801", "U+DD76">> :> <<"U+D801", "U+DD9D">>
            @@ <<"U+D801", "U+DD77">> :> <<"U+D801", "U+DD9E">>
            @@ <<"U+D801", "U+DD78">> :> <<"U+D801", "U+DD9F">>
            @@ <<"U+D801", "U+DD79">> :> <<"U+D801", "U+DDA0">>
            @@ <<"U+D801", "U+DD7A">> :> <<"U+D801", "U+DDA1">>
            @@ <<"U+D801", "U+DD7C">> :> <<"U+D801", "U+DDA3">>
            @@ <<"U+D801", "U+DD7D">> :> <<"U+D801", "U+DDA4">>
            @@ <<"U+D801", "U+DD7E">> :> <<"U+D801", "U+DDA5">>
            @@ <<"U+D801", "U+DD7F">> :> <<"U+D801", "U+DDA6">>
            @@ <<"U+D801", "U+DD80">> :> <<"U+D801", "U+DDA7">>
            @@ <<"U+D801", "U+DD81">> :> <<"U+D801", "U+DDA8">>
            @@ <<"U+D801", "U+DD82">> :> <<"U+D801", "U+DDA9">>
            @@ <<"U+D801", "U+DD83">> :> <<"U+D801", "U+DDAA">>
            @@ <<"U+D801", "U+DD84">> :> <<"U+D801", "U+DDAB">>
            @@ <<"U+D801", "U+DD85">> :> <<"U+D801", "U+DDAC">>
            @@ <<"U+D801", "U+DD86">> :> <<"U+D801", "U+DDAD">>
            @@ <<"U+D801", "U+DD87">> :> <<"U+D801", "U+DDAE">>
            @@ <<"U+D801", "U+DD88">> :> <<"U+D801", "U+DDAF">>
            @@ <<"U+D801", "U+DD89">> :> <<"U+D801", "U+DDB0">>
            @@ <<"U+D801", "U+DD8A">> :> <<"U+D801", "U+DDB1">>
            @@ <<"U+D801", "U+DD8C">> :> <<"U+D801", "U+DDB3">>
            @@ <<"U+D801", "U+DD8D">> :> <<"U+D801", "U+DDB4">>
            @@ <<"U+D801", "U+DD8E">> :> <<"U+D801", "U+DDB5">>
            @@ <<"U+D801", "U+DD8F">> :> <<"U+D801", "U+DDB6">>
            @@ <<"U+D801", "U+DD90">> :> <<"U+D801", "U+DDB7">>
            @@ <<"U+D801", "U+DD91">> :> <<"U+D801", "U+DDB8">>
            @@ <<"U+D801", "U+DD92">> :> <<"U+D801", "U+DDB9">>
            @@ <<"U+D801", "U+DD94">> :> <<"U+D801", "U+DDBB">>
            @@ <<"U+D801", "U+DD95">> :> <<"U+D801", "U+DDBC">>
            @@ <<"U+D803", "U+DC80">> :> <<"U+D803", "U+DCC0">>
            @@ <<"U+D803", "U+DC81">> :> <<"U+D803", "U+DCC1">>
            @@ <<"U+D803", "U+DC82">> :> <<"U+D803", "U+DCC2">>
            @@ <<"U+D803", "U+DC83">> :> <<"U+D803", "U+DCC3">>
            @@ <<"U+D803", "U+DC84">> :> <<"U+D803", "U+DCC4">>
            @@ <<"U+D803", "U+DC85">> :> <<"U+D803", "U+DCC5">>
            @@ <<"U+D803", "U+DC86">> :> <<"U+D803", "U+DCC6">>
            @@ <<"U+D803", "U+DC87">> :> <<"U+D803", "U+DCC7">>
            @@ <<"U+D803", "U+DC88">> :> <<"U+D803", "U+DCC8">>
        part4 ==
               <<"U+D803", "U+DC89">> :> <<"U+D803", "U+DCC9">>
            @@ <<"U+D803", "U+DC8A">> :> <<"U+D803", "U+DCCA">>
            @@ <<"U+D803", "U+DC8B">> :> <<"U+D803", "U+DCCB">>
            @@ <<"U+D803", "U+DC8C">> :> <<"U+D803", "U+DCCC">>
            @@ <<"U+D803", "U+DC8D">> :> <<"U+D803", "U+DCCD">>
            @@ <<"U+D803", "U+DC8E">> :> <<"U+D803", "U+DCCE">>
            @@ <<"U+D803", "U+DC8F">> :> <<"U+D803", "U+DCCF">>
            @@ <<"U+D803", "U+DC90">> :> <<"U+D803", "U+DCD0">>
            @@ <<"U+D803", "U+DC91">> :> <<"U+D803", "U+DCD1">>
            @@ <<"U+D803", "U+DC92">> :> <<"U+D803", "U+DCD2">>
            @@ <<"U+D803", "U+DC93">> :> <<"U+D803", "U+DCD3">>
            @@ <<"U+D803", "U+DC94">> :> <<"U+D803", "U+DCD4">>
            @@ <<"U+D803", "U+DC95">> :> <<"U+D803", "U+DCD5">>
            @@ <<"U+D803", "U+DC96">> :> <<"U+D803", "U+DCD6">>
            @@ <<"U+D803", "U+DC97">> :> <<"U+D803", "U+DCD7">>
            @@ <<"U+D803", "U+DC98">> :> <<"U+D803", "U+DCD8">>
            @@ <<"U+D803", "U+DC99">> :> <<"U+D803", "U+DCD9">>
            @@ <<"U+D803", "U+DC9A">> :> <<"U+D803", "U+DCDA">>
            @@ <<"U+D803", "U+DC9B">> :> <<"U+D803", "U+DCDB">>
            @@ <<"U+D803", "U+DC9C">> :> <<"U+D803", "U+DCDC">>
            @@ <<"U+D803", "U+DC9D">> :> <<"U+D803", "U+DCDD">>
            @@ <<"U+D803", "U+DC9E">> :> <<"U+D803", "U+DCDE">>
            @@ <<"U+D803", "U+DC9F">> :> <<"U+D803", "U+DCDF">>
            @@ <<"U+D803", "U+DCA0">> :> <<"U+D803", "U+DCE0">>
            @@ <<"U+D803", "U+DCA1">> :> <<"U+D803", "U+DCE1">>
            @@ <<"U+D803", "U+DCA2">> :> <<"U+D803", "U+DCE2">>
            @@ <<"U+D803", "U+DCA3">> :> <<"U+D803", "U+DCE3">>
            @@ <<"U+D803", "U+DCA4">> :> <<"U+D803", "U+DCE4">>
            @@ <<"U+D803", "U+DCA5">> :> <<"U+D803", "U+DCE5">>
            @@ <<"U+D803", "U+DCA6">> :> <<"U+D803", "U+DCE6">>
            @@ <<"U+D803", "U+DCA7">> :> <<"U+D803", "U+DCE7">>
            @@ <<"U+D803", "U+DCA8">> :> <<"U+D803", "U+DCE8">>
            @@ <<"U+D803", "U+DCA9">> :> <<"U+D803", "U+DCE9">>
            @@ <<"U+D803", "U+DCAA">> :> <<"U+D803", "U+DCEA">>
            @@ <<"U+D803", "U+DCAB">> :> <<"U+D803", "U+DCEB">>
            @@ <<"U+D803", "U+DCAC">> :> <<"U+D803", "U+DCEC">>
            @@ <<"U+D803", "U+DCAD">> :> <<"U+D803", "U+DCED">>
            @@ <<"U+D803", "U+DCAE">> :> <<"U+D803", "U+DCEE">>
            @@ <<"U+D803", "U+DCAF">> :> <<"U+D803", "U+DCEF">>
            @@ <<"U+D803", "U+DCB0">> :> <<"U+D803", "U+DCF0">>
        part5 ==
               <<"U+D803", "U+DCB1">> :> <<"U+D803", "U+DCF1">>
            @@ <<"U+D803", "U+DCB2">> :> <<"U+D803", "U+DCF2">>
            @@ <<"U+D803", "U+DD50">> :> <<"U+D803", "U+DD70">>
            @@ <<"U+D803", "U+DD51">> :> <<"U+D803", "U+DD71">>
            @@ <<"U+D803", "U+DD52">> :> <<"U+D803", "U+DD72">>
            @@ <<"U+D803", "U+DD53">> :> <<"U+D803", "U+DD73">>
            @@ <<"U+D803", "U+DD54">> :> <<"U+D803", "U+DD74">>
            @@ <<"U+D803", "U+DD55">> :> <<"U+D803", "U+DD75">>
            @@ <<"U+D803", "U+DD56">> :> <<"U+D803", "U+DD76">>
            @@ <<"U+D803", "U+DD57">> :> <<"U+D803", "U+DD77">>
            @@ <<"U+D803", "U+DD58">> :> <<"U+D803", "U+DD78">>
            @@ <<"U+D803", "U+DD59">> :> <<"U+D803", "U+DD79">>
            @@ <<"U+D803", "U+DD5A">> :> <<"U+D803", "U+DD7A">>
            @@ <<"U+D803", "U+DD5B">> :> <<"U+D803", "U+DD7B">>
            @@ <<"U+D803", "U+DD5C">> :> <<"U+D803", "U+DD7C">>
            @@ <<"U+D803", "U+DD5D">> :> <<"U+D803", "U+DD7D">>
            @@ <<"U+D803", "U+DD5E">> :> <<"U+D803", "U+DD7E">>
            @@ <<"U+D803", "U+DD5F">> :> <<"U+D803", "U+DD7F">>
            @@ <<"U+D803", "U+DD60">> :> <<"U+D803", "U+DD80">>
            @@ <<"U+D803", "U+DD61">> :> <<"U+D803", "U+DD81">>
            @@ <<"U+D803", "U+DD62">> :> <<"U+D803", "U+DD82">>
            @@ <<"U+D803", "U+DD63">> :> <<"U+D803", "U+DD83">>
            @@ <<"U+D803", "U+DD64">> :> <<"U+D803", "U+DD84">>
            @@ <<"U+D803", "U+DD65">> :> <<"U+D803", "U+DD85">>
            @@ <<"U+D806", "U+DCA0">> :> <<"U+D806", "U+DCC0">>
            @@ <<"U+D806", "U+DCA1">> :> <<"U+D806", "U+DCC1">>
            @@ <<"U+D806", "U+DCA2">> :> <<"U+D806", "U+DCC2">>
            @@ <<"U+D806", "U+DCA3">> :> <<"U+D806", "U+DCC3">>
            @@ <<"U+D806", "U+DCA4">> :> <<"U+D806", "U+DCC4">>
            @@ <<"U+D806", "U+DCA5">> :> <<"U+D806", "U+DCC5">>
            @@ <<"U+D806", "U+DCA6">> :> <<"U+D806", "U+DCC6">>
            @@ <<"U+D806", "U+DCA7">> :> <<"U+D806", "U+DCC7">>
            @@ <<"U+D806", "U+DCA8">> :> <<"U+D806", "U+DCC8">>
            @@ <<"U+D806", "U+DCA9">> :> <<"U+D806", "U+DCC9">>
            @@ <<"U+D806", "U+DCAA">> :> <<"U+D806", "U+DCCA">>
            @@ <<"U+D806", "U+DCAB">> :> <<"U+D806", "U+DCCB">>
            @@ <<"U+D806", "U+DCAC">> :> <<"U+D806", "U+DCCC">>
            @@ <<"U+D806", "U+DCAD">> :> <<"U+D806", "U+DCCD">>
            @@ <<"U+D806", "U+DCAE">> :> <<"U+D806", "U+DCCE">>
            @@ <<"U+D806", "U+DCAF">> :> <<"U+D806", "U+DCCF">>
        part6 ==
               <<"U+D806", "U+DCB0">> :> <<"U+D806", "U+DCD0">>
            @@ <<"U+D806", "U+DCB1">> :> <<"U+D806", "U+DCD1">>
            @@ <<"U+D806", "U+DCB2">> :> <<"U+D806", "U+DCD2">>
            @@ <<"U+D806", "U+DCB3">> :> <<"U+D806", "U+DCD3">>
            @@ <<"U+D806", "U+DCB4">> :> <<"U+D806", "U+DCD4">>
            @@ <<"U+D806", "U+DCB5">> :> <<"U+D806", "U+DCD5">>
            @@ <<"U+D806", "U+DCB6">> :> <<"U+D806", "U+DCD6">>
            @@ <<"U+D806", "U+DCB7">> :> <<"U+D806", "U+DCD7">>
            @@ <<"U+D806", "U+DCB8">> :> <<"U+D806", "U+DCD8">>
            @@ <<"U+D806", "U+DCB9">> :> <<"U+D806", "U+DCD9">>
            @@ <<"U+D806", "U+DCBA">> :> <<"U+D806", "U+DCDA">>
            @@ <<"U+D806", "U+DCBB">> :> <<"U+D806", "U+DCDB">>
            @@ <<"U+D806", "U+DCBC">> :> <<"U+D806", "U+DCDC">>
            @@ <<"U+D806", "U+DCBD">> :> <<"U+D806", "U+DCDD">>
            @@ <<"U+D806", "U+DCBE">> :> <<"U+D806", "U+DCDE">>
            @@ <<"U+D806", "U+DCBF">> :> <<"U+D806", "U+DCDF">>
            @@ <<"U+D81B", "U+DE40">> :> <<"U+D81B", "U+DE60">>
            @@ <<"U+D81B", "U+DE41">> :> <<"U+D81B", "U+DE61">>
            @@ <<"U+D81B", "U+DE42">> :> <<"U+D81B", "U+DE62">>
            @@ <<"U+D81B", "U+DE43">> :> <<"U+D81B", "U+DE63">>
            @@ <<"U+D81B", "U+DE44">> :> <<"U+D81B", "U+DE64">>
            @@ <<"U+D81B", "U+DE45">> :> <<"U+D81B", "U+DE65">>
            @@ <<"U+D81B", "U+DE46">> :> <<"U+D81B", "U+DE66">>
            @@ <<"U+D81B", "U+DE47">> :> <<"U+D81B", "U+DE67">>
            @@ <<"U+D81B", "U+DE48">> :> <<"U+D81B", "U+DE68">>
            @@ <<"U+D81B", "U+DE49">> :> <<"U+D81B", "U+DE69">>
            @@ <<"U+D81B", "U+DE4A">> :> <<"U+D81B", "U+DE6A">>
            @@ <<"U+D81B", "U+DE4B">> :> <<"U+D81B", "U+DE6B">>
            @@ <<"U+D81B", "U+DE4C">> :> <<"U+D81B", "U+DE6C">>
            @@ <<"U+D81B", "U+DE4D">> :> <<"U+D81B", "U+DE6D">>
            @@ <<"U+D81B", "U+DE4E">> :> <<"U+D81B", "U+DE6E">>
            @@ <<"U+D81B", "U+DE4F">> :> <<"U+D81B", "U+DE6F">>
            @@ <<"U+D81B", "U+DE50">> :> <<"U+D81B", "U+DE70">>
            @@ <<"U+D81B", "U+DE51">> :> <<"U+D81B", "U+DE71">>
            @@ <<"U+D81B", "U+DE52">> :> <<"U+D81B", "U+DE72">>
            @@ <<"U+D81B", "U+DE53">> :> <<"U+D81B", "U+DE73">>
            @@ <<"U+D81B", "U+DE54">> :> <<"U+D81B", "U+DE74">>
            @@ <<"U+D81B", "U+DE55">> :> <<"U+D81B", "U+DE75">>
            @@ <<"U+D81B", "U+DE56">> :> <<"U+D81B", "U+DE76">>
            @@ <<"U+D81B", "U+DE57">> :> <<"U+D81B", "U+DE77">>
        part7 ==
               <<"U+D81B", "U+DE58">> :> <<"U+D81B", "U+DE78">>
            @@ <<"U+D81B", "U+DE59">> :> <<"U+D81B", "U+DE79">>
            @@ <<"U+D81B", "U+DE5A">> :> <<"U+D81B", "U+DE7A">>
            @@ <<"U+D81B", "U+DE5B">> :> <<"U+D81B", "U+DE7B">>
            @@ <<"U+D81B", "U+DE5C">> :> <<"U+D81B", "U+DE7C">>
            @@ <<"U+D81B", "U+DE5D">> :> <<"U+D81B", "U+DE7D">>
            @@ <<"U+D81B", "U+DE5E">> :> <<"U+D81B", "U+DE7E">>
            @@ <<"U+D81B", "U+DE5F">> :> <<"U+D81B", "U+DE7F">>
            @@ <<"U+D81B", "U+DEA0">> :> <<"U+D81B", "U+DEBB">>
            @@ <<"U+D81B", "U+DEA1">> :> <<"U+D81B", "U+DEBC">>
            @@ <<"U+D81B", "U+DEA2">> :> <<"U+D81B", "U+DEBD">>
            @@ <<"U+D81B", "U+DEA3">> :> <<"U+D81B", "U+DEBE">>
            @@ <<"U+D81B", "U+DEA4">> :> <<"U+D81B", "U+DEBF">>
            @@ <<"U+D81B", "U+DEA5">> :> <<"U+D81B", "U+DEC0">>
            @@ <<"U+D81B", "U+DEA6">> :> <<"U+D81B", "U+DEC1">>
            @@ <<"U+D81B", "U+DEA7">> :> <<"U+D81B", "U+DEC2">>
            @@ <<"U+D81B", "U+DEA8">> :> <<"U+D81B", "U+DEC3">>
            @@ <<"U+D81B", "U+DEA9">> :> <<"U+D81B", "U+DEC4">>
            @@ <<"U+D81B", "U+DEAA">> :> <<"U+D81B", "U+DEC5">>
            @@ <<"U+D81B", "U+DEAB">> :> <<"U+D81B", "U+DEC6">>
            @@ <<"U+D81B", "U+DEAC">> :> <<"U+D81B", "U+DEC7">>
            @@ <<"U+D81B", "U+DEAD">> :> <<"U+D81B", "U+DEC8">>
            @@ <<"U+D81B", "U+DEAE">> :> <<"U+D81B", "U+DEC9">>
            @@ <<"U+D81B", "U+DEAF">> :> <<"U+D81B", "U+DECA">>
            @@ <<"U+D81B", "U+DEB0">> :> <<"U+D81B", "U+DECB">>
            @@ <<"U+D81B", "U+DEB1">> :> <<"U+D81B", "U+DECC">>
            @@ <<"U+D81B", "U+DEB2">> :> <<"U+D81B", "U+DECD">>
            @@ <<"U+D81B", "U+DEB3">> :> <<"U+D81B", "U+DECE">>
            @@ <<"U+D81B", "U+DEB4">> :> <<"U+D81B", "U+DECF">>
            @@ <<"U+D81B", "U+DEB5">> :> <<"U+D81B", "U+DED0">>
            @@ <<"U+D81B", "U+DEB6">> :> <<"U+D81B", "U+DED1">>
            @@ <<"U+D81B", "U+DEB7">> :> <<"U+D81B", "U+DED2">>
            @@ <<"U+D81B", "U+DEB8">> :> <<"U+D81B", "U+DED3">>
            @@ <<"U+D83A", "U+DD00">> :> <<"U+D83A", "U+DD22">>
            @@ <<"U+D83A", "U+DD01">> :> <<"U+D83A", "U+DD23">>
            @@ <<"U+D83A", "U+DD02">> :> <<"U+D83A", "U+DD24">>
            @@ <<"U+D83A", "U+DD03">> :> <<"U+D83A", "U+DD25">>
            @@ <<"U+D83A", "U+DD04">> :> <<"U+D83A", "U+DD26">>
            @@ <<"U+D83A", "U+DD05">> :> <<"U+D83A", "U+DD27">>
            @@ <<"U+D83A", "U+DD06">> :> <<"U+D83A", "U+DD28">>
        part8 ==
               <<"U+D83A", "U+DD07">> :> <<"U+D83A", "U+DD29">>
            @@ <<"U+D83A", "U+DD08">> :> <<"U+D83A", "U+DD2A">>
            @@ <<"U+D83A", "U+DD09">> :> <<"U+D83A", "U+DD2B">>
            @@ <<"U+D83A", "U+DD0A">> :> <<"U+D83A", "U+DD2C">>
            @@ <<"U+D83A", "U+DD0B">> :> <<"U+D83A", "U+DD2D">>
            @@ <<"U+D83A", "U+DD0C">> :> <<"U+D83A", "U+DD2E">>
            @@ <<"U+D83A", "U+DD0D">> :> <<"U+D83A", "U+DD2F">>
            @@ <<"U+D83A", "U+DD0E">> :> <<"U+D83A", "U+DD30">>
            @@ <<"U+D83A", "U+DD0F">> :> <<"U+D83A", "U+DD31">>
            @@ <<"U+D83A", "U+DD10">> :> <<"U+D83A", "U+DD32">>
            @@ <<"U+D83A", "U+DD11">> :> <<"U+D83A", "U+DD33">>
            @@ <<"U+D83A", "U+DD12">> :> <<"U+D83A", "U+DD34">>
            @@ <<"U+D83A", "U+DD13">> :> <<"U+D83A", "U+DD35">>
            @@ <<"U+D83A", "U+DD14">> :> <<"U+D83A", "U+DD36">>
            @@ <<"U+D83A", "U+DD15">> :> <<"U+D83A", "U+DD37">>
            @@ <<"U+D83A", "U+DD16">> :> <<"U+D83A", "U+DD38">>
            @@ <<"U+D83A", "U+DD17">> :> <<"U+D83A", "U+DD39">>
            @@ <<"U+D83A", "U+DD18">> :> <<"U+D83A", "U+DD3A">>
            @@ <<"U+D83A", "U+DD19">> :> <<"U+D83A", "U+DD3B">>
            @@ <<"U+D83A", "U+DD1A">> :> <<"U+D83A", "U+DD3C">>
            @@ <<"U+D83A", "U+DD1B">> :> <<"U+D83A", "U+DD3D">>
            @@ <<"U+D83A", "U+DD1C">> :> <<"U+D83A", "U+DD3E">>
            @@ <<"U+D83A", "U+DD1D">> :> <<"U+D83A", "U+DD3F">>
            @@ <<"U+D83A", "U+DD1E">> :> <<"U+D83A", "U+DD40">>
            @@ <<"U+D83A", "U+DD1F">> :> <<"U+D83A", "U+DD41">>
            @@ <<"U+D83A", "U+DD20">> :> <<"U+D83A", "U+DD42">>
            @@ <<"U+D83A", "U+DD21">> :> <<"U+D83A", "U+DD43">>
    IN  part1 @@ part2 @@ part3 @@ part4 @@ part5 @@ part6 @@ part7 @@ part8

\* The characters with the property Case_Ignorable (marks, format
\* characters, modifier letters and symbols, and some punctuation), those of
\* the Basic Multilingual Plane and, as surrogate pairs, those beyond it
\* (Unicode Character Database, version 17.0).
CaseIgnorable ==
    { "'", ".", ":", "^", "U+0060", "U+00A8", "U+00AD", "U+00AF", "U+00B4",
      "U+00B7", "U+00B8", "U+02B0", "U+02B1", "U+02B2", "U+02B3", "U+02B4",
      "U+02B5", "U+02B6", "U+02B7", "U+02B8", "U+02B9", "U+02BA", "U+02BB",
      "U+02BC", "U+02BD", "U+02BE", "U+02BF", "U+02C0", "U+02C1", "U+02C2",
      "U+02C3", "U+02C4", "U+02C5", "U+02C6", "U+02C7", "U+02C8", "U+02C9",
      "U+02CA", "U+02CB", "U+02CC", "U+02CD", "U+02CE", "U+02CF", "U+02D0",
      "U+02D1", "U+02D2", "U+02D3", "U+02D4", "U+02D5", "U+02D6", "U+02D7",
      "U+02D8", "U+02D9", "U+02DA", "U+02DB", "U+02DC", "U+02DD", "U+02DE",
      "U+02DF", "U+02E0", "U+02E1", "U+02E2", "U+02E3", "U+02E4", "U+02E5",
      "U+02E6", "U+02E7", "U+02E8", "U+02E9", "U+02EA", "U+02EB", "U+02EC",
      "U+02ED", "U+02EE", "U+02EF", "U+02F0", "U+02F1", "U+02F2", "U+02F3",
      "U+02F4", "U+02F5", "U+02F6", "U+02F7", "U+02F8", "U+02F9", "U+02FA",
      "U+02FB", "U+02FC", "U+02FD", "U+02FE", "U+02FF", "U+0300", "U+0301",
      "U+0302", "U+0303", "U+0304", "U+0305", "U+0306", "U+0307", "U+0308",
      "U+0309", "U+030A", "U+030B", "U+030C", "U+030D", "U+030E", "U+030F",
      "U+0310", "U+0311", "U+0312", "U+0313", "U+0314", "U+0315", "U+0316",
      "U+0317", "U+0318", "U+0319", "U+031A", "U+031B", "U+031C", "U+031D",
      "U+031E", "U+031F", "U+0320", "U+0321", "U+0322", "U+0323", "U+0324",
      "U+0325", "U+0326", "U+0327", "U+0328", "U+0329", "U+032A", "U+032B",
      "U+032C", "U+032D", "U+032E", "U+032F", "U+0330", "U+0331", "U+0332",
      "U+0333", "U+0334", "U+0335", "U+0336", "U+0337", "U+0338", "U+0339",
      "U+033A", "U+033B", "U+033C", "U+033D", "U+033E", "U+033F", "U+0340",
      "U+0341", "U+0342", "U+0343", "U+0344", "U+0345", "U+0346", "U+0347",
      "U+0348", "U+0349", "U+034A", "U+034B", "U+034C", "U+034D", "U+034E",
      "U+034F", "U+0350", "U+0351", "U+0352", "U+0353", "U+0354", "U+0355",
      "U+0356", "U+0357", "U+0358", "U+0359", "U+035A", "U+035B", "U+035C",
      "U+035D", "U+035E", "U+035F", "U+0360", "U+0361", "U+0362", "U+0363",
      "U+0364", "U+0365", "U+0366", "U+0367", "U+0368", "U+0369", "U+036A",
      "U+036B", "U+036C", "U+036D", "U+036E", "U+036F", "U+0374", "U+0375",
      "U+037A", "U+0384", "U+0385", "U+0387", "U+0483", "U+0484", "U+0485",
      "U+0486", "U+0487", "U+0488", "U+0489", "U+0559", "U+055F", "U+0591",
      "U+0592", "U+0593", "U+0594", "U+0595", "U+0596", "U+0597", "U+0598",
      "U+0599", "U+059A", "U+059B", "U+059C", "U+059D", "U+059E", "U+059F",
      "U+05A0", "U+05A1", "U+05A2", "U+05A3", "U+05A4", "U+05A5", "U+05A6",
      "U+05A7", "U+05A8", "U+05A9", "U+05AA", "U+05AB", "U+05AC", "U+05AD",
      "U+05AE", "U+05AF", "U+05B0", "U+05B1", "U+05B2", "U+05B3", "U+05B4",
      "U+05B5", "U+05B6", "U+05B7", "U+05B8", "U+05B9", "U+05BA", "U+05BB",
      "U+05BC", "U+05BD", "U+05BF", "U+05C1", "U+05C2", "U+05C4", "U+05C5",
      "U+05C7", "U+05F4", "U+0600", "U+0601", "U+0602", "U+0603", "U+0604",
      "U+0605", "U+0610", "U+0611", "U+0612", "U+0613", "U+0614", "U+0615",
      "U+0616", "U+0617", "U+0618", "U+0619", "U+061A", "U+061C", "U+0640",
      "U+064B", "U+064C", "U+064D", "U+064E", "U+064F", "U+0650", "U+0651",
      "U+0652", "U+0653", "U+0654", "U+0655", "U+0656", "U+0657", "U+0658",
      "U+0659", "U+065A", "U+065B", "U+065C", "U+065D", "U+065E", "U+065F",
      "U+0670", "U+06D6", "U+06D7", "U+06D8", "U+06D9", "U+06DA", "U+06DB",
      "U+06DC", "U+06DD", "U+06DF", "U+06E0", "U+06E1", "U+06E2", "U+06E3",
      "U+06E4", "U+06E5", "U+06E6", "U+06E7", "U+06E8", "U+06EA", "U+06EB",
      "U+06EC", "U+06ED", "U+070F", "U+0711", "U+0730", "U+0731", "U+0732",
      "U+0733", "U+0734", "U+0735", "U+0736", "U+0737", "U+0738", "U+0739",
      "U+073A", "U+073B", "U+073C", "U+073D", "U+073E", "U+073F", "U+0740",
      "U+0741", "U+0742", "U+0743", "U+0744", "U+0745", "U+0746", "U+0747",
      "U+0748", "U+0749", "U+074A", "U+07A6", "U+07A7", "U+07A8", "U+07A9",
      "U+07AA", "U+07AB", "U+07AC", "U+07AD", "U+07AE", "U+07AF", "U+07B0",
      "U+07EB", "U+07EC", "U+07ED", "U+07EE", "U+07EF", "U+07F0", "U+07F1",
      "U+07F2", "U+07F3", "U+07F4", "U+07F5", "U+07FA", "U+07FD", "U+0816",
      "U+0817", "U+0818", "U+0819", "U+081A", "U+081B", "U+081C", "U+081D",
      "U+081E", "U+081F", "U+0820", "U+0821", "U+0822", "U+0823", "U+0824",
      "U+0825", "U+0826", "U+0827", "U+0828", "U+0829", "U+082A", "U+082B",
      "U+082C", "U+082D", "U+0859", "U+085A", "U+085B", "U+0888", "U+0890",
      "U+0891", "U+0897", "U+0898", "U+0899", "U+089A", "U+089B", "U+089C",
      "U+089D", "U+089E", "U+089F", "U+08C9", "U+08CA", "U+08CB", "U+08CC",
      "U+08CD", "U+08CE", "U+08CF", "U+08D0", "U+08D1", "U+08D2", "U+08D3",
      "U+08D4", "U+08D5", "U+08D6", "U+08D7", "U+08D8", "U+08D9", "U+08DA",
      "U+08DB", "U+08DC", "U+08DD", "U+08DE", "U+08DF", "U+08E0", "U+08E1",
      "U+08E2", "U+08E3", "U+08E4", "U+08E5", "U+08E6", "U+08E7", "U+08E8",
      "U+08E9", "U+08EA", "U+08EB", "U+08EC", "U+08ED", "U+08EE", "U+08EF",
      "U+08F0", "U+08F1", "U+08F2", "U+08F3", "U+08F4", "U+08F5", "U+08F6",
      "U+08F7", "U+08F8", "U+08F9", "U+08FA", "U+08FB", "U+08FC", "U+08FD",
      "U+08FE", "U+08FF", "U+0900", "U+0901", "U+0902", "U+093A", "U+093C",
      "U+0941", "U+0942", "U+0943", "U+0944", "U+0945", "U+0946", "U+0947",
      "U+0948", "U+094D", "U+0951", "U+0952", "U+0953", "U+0954", "U+0955",
      "U+0956", "U+0957", "U+0962", "U+0963", "U+0971", "U+0981", "U+09BC",
      "U+09C1", "U+09C2", "U+09C3", "U+09C4", "U+09CD", "U+09E2", "U+09E3",
      "U+09FE", "U+0A01", "U+0A02", "U+0A3C", "U+0A41", "U+0A42", "U+0A47",
      "U+0A48", "U+0A4B", "U+0A4C", "U+0A4D", "U+0A51", "U+0A70", "U+0A71",
      "U+0A75", "U+0A81", "U+0A82", "U+0ABC", "U+0AC1", "U+0AC2", "U+0AC3",
      "U+0AC4", "U+0AC5", "U+0AC7", "U+0AC8", "U+0ACD", "U+0AE2", "U+0AE3",
      "U+0AFA", "U+0AFB", "U+0AFC", "U+0AFD", "U+0AFE", "U+0AFF", "U+0B01",
      "U+0B3C", "U+0B3F", "U+0B41", "U+0B42", "U+0B43", "U+0B44", "U+0B4D",
      "U+0B55", "U+0B56", "U+0B62", "U+0B63", "U+0B82", "U+0BC0", "U+0BCD",
      "U+0C00", "U+0C04", "U+0C3C", "U+0C3E", "U+0C3F", "U+0C40", "U+0C46",
      "U+0C47", "U+0C48", "U+0C4A", "U+0C4B", "U+0C4C", "U+0C4D", "U+0C55",
      "U+0C56", "U+0C62", "U+0C63", "U+0C81", "U+0CBC", "U+0CBF", "U+0CC6",
      "U+0CCC", "U+0CCD", "U+0CE2", "U+0CE3", "U+0D00", "U+0D01", "U+0D3B",
      "U+0D3C", "U+0D41", "U+0D42", "U+0D43", "U+0D44", "U+0D4D", "U+0D62",
      "U+0D63", "U+0D81", "U+0DCA", "U+0DD2", "U+0DD3", "U+0DD4", "U+0DD6",
      "U+0E31", "U+0E34", "U+0E35", "U+0E36", "U+0E37", "U+0E38", "U+0E39",
      "U+0E3A", "U+0E46", "U+0E47", "U+0E48", "U+0E49", "U+0E4A", "U+0E4B",
      "U+0E4C", "U+0E4D", "U+0E4E", "U+0EB1", "U+0EB4", "U+0EB5", "U+0EB6",
      "U+0EB7", "U+0EB8", "U+0EB9", "U+0EBA", "U+0EBB", "U+0EBC", "U+0EC6",
      "U+0EC8", "U+0EC9", "U+0ECA", "U+0ECB", "U+0ECC", "U+0ECD", "U+0ECE",
      "U+0F18", "U+0F19", "U+0F35", "U+0F37", "U+0F39", "U+0F71", "U+0F72",
      "U+0F73", "U+0F74", "U+0F75", "U+0F76", "U+0F77", "U+0F78", "U+0F79",
      "U+0F7A", "U+0F7B", "U+0F7C", "U+0F7D", "U+0F7E", "U+0F80", "U+0F81",
      "U+0F82", "U+0F83", "U+0F84", "U+0F86", "U+0F87", "U+0F8D", "U+0F8E",
      "U+0F8F", "U+0F90", "U+0F91", "U+0F92", "U+0F93", "U+0F94", "U+0F95",
      "U+0F96", "U+0F97", "U+0F99", "U+0F9A", "U+0F9B", "U+0F9C", "U+0F9D",
      "U+0F9E", "U+0F9F", "U+0FA0", "U+0FA1", "U+0FA2", "U+0FA3", "U+0FA4",
      "U+0FA5", "U+0FA6", "U+0FA7", "U+0FA8", "U+0FA9", "U+0FAA", "U+0FAB",
      "U+0FAC", "U+0FAD", "U+0FAE", "U+0FAF", "U+0FB0", "U+0FB1", "U+0FB2",
      "U+0FB3", "U+0FB4", "U+0FB5", "U+0FB6", "U+0FB7", "U+0FB8", "U+0FB9",
      "U+0FBA", "U+0FBB", "U+0FBC", "U+0FC6", "U+102D", "U+102E", "U+102F",
      "U+1030", "U+1032", "U+1033", "U+1034", "U+1035", "U+1036", "U+1037",
      "U+1039", "U+103A", "U+103D", "U+103E", "U+1058", "U+1059", "U+105E",
      "U+105F", "U+1060", "U+1071", "U+1072", "U+1073", "U+1074", "U+1082",
      "U+1085", "U+1086", "U+108D", "U+109D", "U+10FC", "U+135D", "U+135E",
      "U+135F", "U+1712", "U+1713", "U+1714", "U+1732", "U+1733", "U+1752",
      "U+1753", "U+1772", "U+1773", "U+17B4", "U+17B5", "U+17B7", "U+17B8",
      "U+17B9", "U+17BA", "U+17BB", "U+17BC", "U+17BD", "U+17C6", "U+17C9",
      "U+17CA", "U+17CB", "U+17CC", "U+17CD", "U+17CE", "U+17CF", "U+17D0",
      "U+17D1", "U+17D2", "U+17D3", "U+17D7", "U+17DD", "U+180B", "U+180C",
      "U+180D", "U+180E", "U+180F", "U+1843", "U+1885", "U+1886", "U+18A9",
      "U+1920", "U+1921", "U+1922", "U+1927", "U+1928", "U+1932", "U+1939",
      "U+193A", "U+193B", "U+1A17", "U+1A18", "U+1A1B", "U+1A56", "U+1A58",
      "U+1A59", "U+1A5A", "U+1A5B", "U+1A5C", "U+1A5D", "U+1A5E", "U+1A60",
      "U+1A62", "U+1A65", "U+1A66", "U+1A67", "U+1A68", "U+1A69", "U+1A6A",
      "U+1A6B", "U+1A6C", "U+1A73", "U+1A74", "U+1A75", "U+1A76", "U+1A77",
      "U+1A78", "U+1A79", "U+1A7A", "U+1A7B", "U+1A7C", "U+1A7F", "U+1AA7",
      "U+1AB0", "U+1AB1", "U+1AB2", "U+1AB3", "U+1AB4", "U+1AB5", "U+1AB6",
      "U+1AB7", "U+1AB8", "U+1AB9", "U+1ABA", "U+1ABB", "U+1ABC", "U+1ABD",
      "U+1ABE", "U+1ABF", "U+1AC0", "U+1AC1", "U+1AC2", "U+1AC3", "U+1AC4",
      "U+1AC5", "U+1AC6", "U+1AC7", "U+1AC8", "U+1AC9", "U+1ACA", "U+1ACB",
      "U+1ACC", "U+1ACD", "U+1ACE", "U+1ACF", "U+1AD0", "U+1AD1", "U+1AD2",
      "U+1AD3", "U+1AD4", "U+1AD5", "U+1AD6", "U+1AD7", "U+1AD8", "U+1AD9",
      "U+1ADA", "U+1ADB", "U+1ADC", "U+1ADD", "U+1AE0", "U+1AE1", "U+1AE2",
      "U+1AE3", "U+1AE4", "U+1AE5", "U+1AE6", "U+1AE7", "U+1AE8", "U+1AE9",
      "U+1AEA", "U+1AEB", "U+1B00", "U+1B01", "U+1B02", "U+1B03", "U+1B34",
      "U+1B36", "U+1B37", "U+1B38", "U+1B39", "U+1B3A", "U+1B3C", "U+1B42",
      "U+1B6B", "U+1B6C", "U+1B6D", "U+1B6E", "U+1B6F", "U+1B70", "U+1B71",
      "U+1B72", "U+1B73", "U+1B80", "U+1B81", "U+1BA2", "U+1BA3", "U+1BA4",
      "U+1BA5", "U+1BA8", "U+1BA9", "U+1BAB", "U+1BAC", "U+1BAD", "U+1BE6",
      "U+1BE8", "U+1BE9", "U+1BED", "U+1BEF", "U+1BF0", "U+1BF1", "U+1C2C",
      "U+1C2D", "U+1C2E", "U+1C2F", "U+1C30", "U+1C31", "U+1C32", "U+1C33",
      "U+1C36", "U+1C37", "U+1C78", "U+1C79", "U+1C7A", "U+1C7B", "U+1C7C",
      "U+1C7D", "U+1CD0", "U+1CD1", "U+1CD2", "U+1CD4", "U+1CD5", "U+1CD6",
      "U+1CD7", "U+1CD8", "U+1CD9", "U+1CDA", "U+1CDB", "U+1CDC", "U+1CDD",
      "U+1CDE", "U+1CDF", "U+1CE0", "U+1CE2", "U+1CE3", "U+1CE4", "U+1CE5",
      "U+1CE6", "U+1CE7", "U+1CE8", "U+1CED", "U+1CF4", "U+1CF8", "U+1CF9",
      "U+1D2C", "U+1D2D", "U+1D2E", "U+1D2F", "U+1D30", "U+1D31", "U+1D32",
      "U+1D33", "U+1D34", "U+1D35", "U+1D36", "U+1D37", "U+1D38", "U+1D39",
      "U+1D3A", "U+1D3B", "U+1D3C", "U+1D3D", "U+1D3E", "U+1D3F", "U+1D40",
      "U+1D41", "U+1D42", "U+1D43", "U+1D44", "U+1D45", "U+1D46", "U+1D47",
      "U+1D48", "U+1D49", "U+1D4A", "U+1D4B", "U+1D4C", "U+1D4D", "U+1D4E",
      "U+1D4F", "U+1D50", "U+1D51", "U+1D52", "U+1D53", "U+1D54", "U+1D55",
      "U+1D56", "U+1D57", "U+1D58", "U+1D59", "U+1D5A", "U+1D5B", "U+1D5C",
      "U+1D5D", "U+1D5E", "U+1D5F", "U+1D60", "U+1D61", "U+1D62", "U+1D63",
      "U+1D64", "U+1D65", "U+1D66", "U+1D67", "U+1D68", "U+1D69", "U+1D6A",
      "U+1D78", "U+1D9B", "U+1D9C", "U+1D9D", "U+1D9E", "U+1D9F", "U+1DA0",
      "U+1DA1", "U+1DA2", "U+1DA3", "U+1DA4", "U+1DA5", "U+1DA6", "U+1DA7",
      "U+1DA8", "U+1DA9", "U+1DAA", "U+1DAB", "U+1DAC", "U+1DAD", "U+1DAE",
      "U+1DAF", "U+1DB0", "U+1DB1", "U+1DB2", "U+1DB3", "U+1DB4", "U+1DB5",
      "U+1DB6", "U+1DB7", "U+1DB8", "U+1DB9", "U+1DBA", "U+1DBB", "U+1DBC",
      "U+1DBD", "U+1DBE", "U+1DBF", "U+1DC0", "U+1DC1", "U+1DC2", "U+1DC3",
      "U+1DC4", "U+1DC5", "U+1DC6", "U+1DC7", "U+1DC8", "U+1DC9", "U+1DCA",
      "U+1DCB", "U+1DCC", "U+1DCD", "U+1DCE", "U+1DCF", "U+1DD0", "U+1DD1",
      "U+1DD2", "U+1DD3", "U+1DD4", "U+1DD5", "U+1DD6", "U+1DD7", "U+1DD8",
      "U+1DD9", "U+1DDA", "U+1DDB", "U+1DDC", "U+1DDD", "U+1DDE", "U+1DDF",
      "U+1DE0", "U+1DE1", "U+1DE2", "U+1DE3", "U+1DE4", "U+1DE5", "U+1DE6",
      "U+1DE7", "U+1DE8", "U+1DE9", "U+1DEA", "U+1DEB", "U+1DEC", "U+1DED",
      "U+1DEE", "U+1DEF", "U+1DF0", "U+1DF1", "U+1DF2", "U+1DF3", "U+1DF4",
      "U+1DF5", "U+1DF6", "U+1DF7", "U+1DF8", "U+1DF9", "U+1DFA", "U+1DFB",
      "U+1DFC", "U+1DFD", "U+1DFE", "U+1DFF", "U+1FBD", "U+1FBF", "U+1FC0",
      "U+1FC1", "U+1FCD", "U+1FCE", "U+1FCF", "U+1FDD", "U+1FDE", "U+1FDF",
      "U+1FED", "U+1FEE", "U+1FEF", "U+1FFD", "U+1FFE", "U+200B", "U+200C",
      "U+200D", "U+200E", "U+200F", "U+2018", "U+2019", "U+2024", "U+2027",
      "U+202A", "U+202B", "U+202C", "U+202D", "U+202E", "U+2060", "U+2061",
      "U+2062", "U+2063", "U+2064", "U+2066", "U+2067", "U+2068", "U+2069",
      "U+206A", "U+206B", "U+206C", "U+206D", "U+206E", "U+206F", "U+2071",
      "U+207F", "U+2090", "U+2091", "U+2092", "U+2093", "U+2094", "U+2095",
      "U+2096", "U+2097", "U+2098", "U+2099", "U+209A", "U+209B", "U+209C",
      "U+20D0", "U+20D1", "U+20D2", "U+20D3", "U+20D4", "U+20D5", "U+20D6",
      "U+20D7", "U+20D8", "U+20D9", "U+20DA", "U+20DB", "U+20DC", "U+20DD",
      "U+20DE", "U+20DF", "U+20E0", "U+20E1", "U+20E2", "U+20E3", "U+20E4",
      "U+20E5", "U+20E6", "U+20E7", "U+20E8", "U+20E9", "U+20EA", "U+20EB",
      "U+20EC", "U+20ED", "U+20EE", "U+20EF", "U+20F0", "U+2C7C", "U+2C7D",
      "U+2CEF", "U+2CF0", "U+2CF1", "U+2D6F", "U+2D7F", "U+2DE0", "U+2DE1",
      "U+2DE2", "U+2DE3", "U+2DE4", "U+2DE5", "U+2DE6", "U+2DE7", "U+2DE8",
      "U+2DE9", "U+2DEA", "U+2DEB", "U+2DEC", "U+2DED", "U+2DEE", "U+2DEF",
      "U+2DF0", "U+2DF1", "U+2DF2", "U+2DF3", "U+2DF4", "U+2DF5", "U+2DF6",
      "U+2DF7", "U+2DF8", "U+2DF9", "U+2DFA", "U+2DFB", "U+2DFC", "U+2DFD",
      "U+2DFE", "U+2DFF", "U+2E2F", "U+3005", "U+302A", "U+302B", "U+302C",
      "U+302D", "U+3031", "U+3032", "U+3033", "U+3034", "U+3035", "U+303B",
      "U+3099", "U+309A", "U+309B", "U+309C", "U+309D", "U+309E", "U+30FC",
      "U+30FD", "U+30FE", "U+A015", "U+A4F8", "U+A4F9", "U+A4FA", "U+A4FB",
      "U+A4FC", "U+A4FD", "U+A60C", "U+A66F", "U+A670", "U+A671", "U+A672",
      "U+A674", "U+A675", "U+A676", "U+A677", "U+A678", "U+A679", "U+A67A",
      "U+A67B", "U+A67C", "U+A67D", "U+A67F", "U+A69C", "U+A69D", "U+A69E",
      "U+A69F", "U+A6F0", "U+A6F1", "U+A700", "U+A701", "U+A702", "U+A703",
      "U+A704", "U+A705", "U+A706", "U+A707", "U+A708", "U+A709", "U+A70A",
      "U+A70B", "U+A70C", "U+A70D", "U+A70E", "U+A70F", "U+A710", "U+A711",
      "U+A712", "U+A713", "U+A714", "U+A715", "U+A716", "U+A717", "U+A718",
      "U+A719", "U+A71A", "U+A71B", "U+A71C", "U+A71D", "U+A71E", "U+A71F",
      "U+A720", "U+A721", "U+A770", "U+A788", "U+A789", "U+A78A", "U+A7F1",
      "U+A7F2", "U+A7F3", "U+A7F4", "U+A7F8", "U+A7F9", "U+A802", "U+A806",
      "U+A80B", "U+A825", "U+A826", "U+A82C", "U+A8C4", "U+A8C5", "U+A8E0",
      "U+A8E1", "U+A8E2", "U+A8E3", "U+A8E4", "U+A8E5", "U+A8E6", "U+A8E7",
      "U+A8E8", "U+A8E9", "U+A8EA", "U+A8EB", "U+A8EC", "U+A8ED", "U+A8EE",
      "U+A8EF", "U+A8F0", "U+A8F1", "U+A8FF", "U+A926", "U+A927", "U+A928",
      "U+A929", "U+A92A", "U+A92B", "U+A92C", "U+A92D", "U+A947", "U+A948",
      "U+A949", "U+A94A", "U+A94B", "U+A94C", "U+A94D", "U+A94E", "U+A94F",
      "U+A950", "U+A951", "U+A980", "U+A981", "U+A982", "U+A9B3", "U+A9B6",
      "U+A9B7", "U+A9B8", "U+A9B9", "U+A9BC", "U+A9BD", "U+A9CF", "U+A9E5",
      "U+A9E6", "U+AA29", "U+AA2A", "U+AA2B", "U+AA2C", "U+AA2D", "U+AA2E",
      "U+AA31", "U+AA32", "U+AA35", "U+AA36", "U+AA43", "U+AA4C", "U+AA70",
      "U+AA7C", "U+AAB0", "U+AAB2", "U+AAB3", "U+AAB4", "U+AAB7", "U+AAB8",
      "U+AABE", "U+AABF", "U+AAC1", "U+AADD", "U+AAEC", "U+AAED", "U+AAF3",
      "U+AAF4", "U+AAF6", "U+AB5B", "U+AB5C", "U+AB5D", "U+AB5E", "U+AB5F",
      "U+AB69", "U+AB6A", "U+AB6B", "U+ABE5", "U+ABE8", "U+ABED", "U+FB1E",
      "U+FBB2", "U+FBB3", "U+FBB4", "U+FBB5", "U+FBB6", "U+FBB7", "U+FBB8",
      "U+FBB9", "U+FBBA", "U+FBBB", "U+FBBC", "U+FBBD", "U+FBBE", "U+FBBF",
      "U+FBC0", "U+FBC1", "U+FBC2", "U+FE00", "U+FE01", "U+FE02", "U+FE03",
      "U+FE04", "U+FE05", "U+FE06", "U+FE07", "U+FE08", "U+FE09", "U+FE0A",
      "U+FE0B", "U+FE0C", "U+FE0D", "U+FE0E", "U+FE0F", "U+FE13", "U+FE20",
      "U+FE21", "U+FE22", "U+FE23", "U+FE24", "U+FE25", "U+FE26", "U+FE27",
      "U+FE28", "U+FE29", "U+FE2A", "U+FE2B", "U+FE2C", "U+FE2D", "U+FE2E",
      "U+FE2F", "U+FE52", "U+FE55", "U+FEFF", "U+FF07", "U+FF0E", "U+FF1A",
      "U+FF3E", "U+FF40", "U+FF70", "U+FF9E", "U+FF9F", "U+FFE3", "U+FFF9",
      "U+FFFA", "U+FFFB" }

CaseIgnorablePairs ==
    ({"U+D800"} \X
        { "U+DDFD", "U+DEE0", "U+DF76", "U+DF77", "U+DF78", "U+DF79",
          "U+DF7A" })
    \cup ({"U+D801"} \X
        { "U+DF80", "U+DF81", "U+DF82", "U+DF83", "U+DF84", "U+DF85",
          "U+DF87", "U+DF88", "U+DF89", "U+DF8A", "U+DF8B", "U+DF8C",
          "U+DF8D", "U+DF8E", "U+DF8F", "U+DF90", "U+DF91", "U+DF92",
          "U+DF93", "U+DF94", "U+DF95", "U+DF96", "U+DF97", "U+DF98",
          "U+DF99", "U+DF9A", "U+DF9B", "U+DF9C", "U+DF9D", "U+DF9E",
          "U+DF9F", "U+DFA0", "U+DFA1", "U+DFA2", "U+DFA3", "U+DFA4",
          "U+DFA5", "U+DFA6", "U+DFA7", "U+DFA8", "U+DFA9", "U+DFAA",
          "U+DFAB", "U+DFAC", "U+DFAD", "U+DFAE", "U+DFAF", "U+DFB0",
          "U+DFB2", "U+DFB3", "U+DFB4", "U+DFB5", "U+DFB6", "U+DFB7",
          "U+DFB8", "U+DFB9", "U+DFBA" })
    \cup ({"U+D802"} \X
        { "U+DE01", "U+DE02", "U+DE03", "U+DE05", "U+DE06", "U+DE0C",
          "U+DE0D", "U+DE0E", "U+DE0F", "U+DE38", "U+DE39", "U+DE3A",
          "U+DE3F", "U+DEE5", "U+DEE6" })
    \cup ({"U+D803"} \X
        { "U+DD24", "U+DD25", "U+DD26", "U+DD27", "U+DD4E", "U+DD69",
          "U+DD6A", "U+DD6B", "U+DD6C", "U+DD6D", "U+DD6F", "U+DEAB",
          "U+DEAC", "U+DEC5", "U+DEFA", "U+DEFB", "U+DEFC", "U+DEFD",
          "U+DEFE", "U+DEFF", "U+DF46", "U+DF47", "U+DF48", "U+DF49",
          "U+DF4A", "U+DF4B", "U+DF4C", "U+DF4D", "U+DF4E", "U+DF4F",
          "U+DF50", "U+DF82", "U+DF83", "U+DF84", "U+DF85" })
    \cup ({"U+D804"} \X
        { "U+DC01", "U+DC38", "U+DC39", "U+DC3A", "U+DC3B", "U+DC3C",
          "U+DC3D", "U+DC3E", "U+DC3F", "U+DC40", "U+DC41", "U+DC42",
          "U+DC43", "U+DC44", "U+DC45", "U+DC46", "U+DC70", "U+DC73",
          "U+DC74", "U+DC7F", "U+DC80", "U+DC81", "U+DCB3", "U+DCB4",
          "U+DCB5", "U+DCB6", "U+DCB9", "U+DCBA", "U+DCBD", "U+DCC2",
          "U+DCCD", "U+DD00", "U+DD01", "U+DD02", "U+DD27", "U+DD28",
          "U+DD29", "U+DD2A", "U+DD2B", "U+DD2D", "U+DD2E", "U+DD2F",
          "U+DD30", "U+DD31", "U+DD32", "U+DD33", "U+DD34", "U+DD73",
          "U+DD80", "U+DD81", "U+DDB6", "U+DDB7", "U+DDB8", "U+DDB9",
          "U+DDBA", "U+DDBB", "U+DDBC", "U+DDBD", "U+DDBE", "U+DDC9",
          "U+DDCA", "U+DDCB", "U+DDCC", "U+DDCF", "U+DE2F", "U+DE30",
          "U+DE31", "U+DE34", "U+DE36", "U+DE37", "U+DE3E", "U+DE41",
          "U+DEDF", "U+DEE3", "U+DEE4", "U+DEE5", "U+DEE6", "U+DEE7",
          "U+DEE8", "U+DEE9", "U+DEEA", "U+DF00", "U+DF01", "U+DF3B",
          "U+DF3C", "U+DF40", "U+DF66", "U+DF67", "U+DF68", "U+DF69",
          "U+DF6A", "U+DF6B", "U+DF6C", "U+DF70", "U+DF71", "U+DF72",
          "U+DF73", "U+DF74", "U+DFBB", "U+DFBC", "U+DFBD", "U+DFBE",
          "U+DFBF", "U+DFC0", "U+DFCE", "U+DFD0", "U+DFD2", "U+DFE1",
          "U+DFE2" })
    \cup ({"U+D805"} \X
        { "U+DC38", "U+DC39", "U+DC3A", "U+DC3B", "U+DC3C", "U+DC3D",
          "U+DC3E", "U+DC3F", "U+DC42", "U+DC43", "U+DC44", "U+DC46",
          "U+DC5E", "U+DCB3", "U+DCB4", "U+DCB5", "U+DCB6", "U+DCB7",
          "U+DCB8", "U+DCBA", "U+DCBF", "U+DCC0", "U+DCC2", "U+DCC3",
          "U+DDB2", "U+DDB3", "U+DDB4", "U+DDB5", "U+DDBC", "U+DDBD",
          "U+DDBF", "U+DDC0", "U+DDDC", "U+DDDD", "U+DE33", "U+DE34",
          "U+DE35", "U+DE36", "U+DE37", "U+DE38", "U+DE39", "U+DE3A",
          "U+DE3D", "U+DE3F", "U+DE40", "U+DEAB", "U+DEAD", "U+DEB0",
          "U+DEB1", "U+DEB2", "U+DEB3", "U+DEB4", "U+DEB5", "U+DEB7",
          "U+DF1D", "U+DF1F", "U+DF22", "U+DF23", "U+DF24", "U+DF25",
          "U+DF27", "U+DF28", "U+DF29", "U+DF2A", "U+DF2B" })
    \cup ({"U+D806"} \X
        { "U+DC2F", "U+DC30", "U+DC31", "U+DC32", "U+DC33", "U+DC34",
          "U+DC35", "U+DC36", "U+DC37", "U+DC39", "U+DC3A", "U+DD3B",
          "U+DD3C", "U+DD3E", "U+DD43", "U+DDD4", "U+DDD5", "U+DDD6",
          "U+DDD7", "U+DDDA", "U+DDDB", "U+DDE0", "U+DE01", "U+DE02",
          "U+DE03", "U+DE04", "U+DE05", "U+DE06", "U+DE07", "U+DE08",
          "U+DE09", "U+DE0A", "U+DE33", "U+DE34", "U+DE35", "U+DE36",
          "U+DE37", "U+DE38", "U+DE3B", "U+DE3C", "U+DE3D", "U+DE3E",
          "U+DE47", "U+DE51", "U+DE52", "U+DE53", "U+DE54", "U+DE55",
          "U+DE56", "U+DE59", "U+DE5A", "U+DE5B", "U+DE8A", "U+DE8B",
          "U+DE8C", "U+DE8D", "U+DE8E", "U+DE8F", "U+DE90", "U+DE91",
          "U+DE92", "U+DE93", "U+DE94", "U+DE95", "U+DE96", "U+DE98",
          "U+DE99", "U+DF60", "U+DF62", "U+DF63", "U+DF64", "U+DF66" })
    \cup ({"U+D807"} \X
        { "U+DC30", "U+DC31", "U+DC32", "U+DC33", "U+DC34", "U+DC35",
          "U+DC36", "U+DC38", "U+DC39", "U+DC3A", "U+DC3B", "U+DC3C",
          "U+DC3D", "U+DC3F", "U+DC92", "U+DC93", "U+DC94", "U+DC95",
          "U+DC96", "U+DC97", "U+DC98", "U+DC99", "U+DC9A", "U+DC9B",
          "U+DC9C", "U+DC9D", "U+DC9E", "U+DC9F", "U+DCA0", "U+DCA1",
          "U+DCA2", "U+DCA3", "U+DCA4", "U+DCA5", "U+DCA6", "U+DCA7",
          "U+DCAA", "U+DCAB", "U+DCAC", "U+DCAD", "U+DCAE", "U+DCAF",
          "U+DCB0", "U+DCB2", "U+DCB3", "U+DCB5", "U+DCB6", "U+DD31",
          "U+DD32", "U+DD33", "U+DD34", "U+DD35", "U+DD36", "U+DD3A",
          "U+DD3C", "U+DD3D", "U+DD3F", "U+DD40", "U+DD41", "U+DD42",
          "U+DD43", "U+DD44", "U+DD45", "U+DD47", "U+DD90", "U+DD91",
          "U+DD95", "U+DD97", "U+DDD9", "U+DEF3", "U+DEF4", "U+DF00",
          "U+DF01", "U+DF36", "U+DF37", "U+DF38", "U+DF39", "U+DF3A",
          "U+DF40", "U+DF42", "U+DF5A" })
    \cup ({"U+D80D"} \X
        { "U+DC30", "U+DC31", "U+DC32", "U+DC33", "U+DC34", "U+DC35",
          "U+DC36", "U+DC37", "U+DC38", "U+DC39", "U+DC3A", "U+DC3B",
          "U+DC3C", "U+DC3D", "U+DC3E", "U+DC3F", "U+DC40", "U+DC47",
          "U+DC48", "U+DC49", "U+DC4A", "U+DC4B", "U+DC4C", "U+DC4D",
          "U+DC4E", "U+DC4F", "U+DC50", "U+DC51", "U+DC52", "U+DC53",
          "U+DC54", "U+DC55" })
    \cup ({"U+D818"} \X
        { "U+DD1E", "U+DD1F", "U+DD20", "U+DD21", "U+DD22", "U+DD23",
          "U+DD24", "U+DD25", "U+DD26", "U+DD27", "U+DD28", "U+DD29",
          "U+DD2D", "U+DD2E", "U+DD2F" })
    \cup ({"U+D81A"} \X
        { "U+DEF0", "U+DEF1", "U+DEF2", "U+DEF3", "U+DEF4", "U+DF30",
          "U+DF31", "U+DF32", "U+DF33", "U+DF34", "U+DF35", "U+DF36",
          "U+DF40", "U+DF41", "U+DF42", "U+DF43" })
    \cup ({"U+D81B"} \X
        { "U+DD40", "U+DD41", "U+DD42", "U+DD6B", "U+DD6C", "U+DF4F",
          "U+DF8F", "U+DF90", "U+DF91", "U+DF92", "U+DF93", "U+DF94",
          "U+DF95", "U+DF96", "U+DF97", "U+DF98", "U+DF99", "U+DF9A",
          "U+DF9B", "U+DF9C", "U+DF9D", "U+DF9E", "U+DF9F", "U+DFE0",
          "U+DFE1", "U+DFE3", "U+DFE4", "U+DFF2", "U+DFF3" })
    \cup ({"U+D82B"} \X
        { "U+DFF0", "U+DFF1", "U+DFF2", "U+DFF3", "U+DFF5", "U+DFF6",
          "U+DFF7", "U+DFF8", "U+DFF9", "U+DFFA", "U+DFFB", "U+DFFD",
          "U+DFFE" })
    \cup ({"U+D82F"} \X
        { "U+DC9D", "U+DC9E", "U+DCA0", "U+DCA1", "U+DCA2", "U+DCA3" })
    \cup ({"U+D833"} \X
        { "U+DF00", "U+DF01", "U+DF02", "U+DF03", "U+DF04", "U+DF05",
          "U+DF06", "U+DF07", "U+DF08", "U+DF09", "U+DF0A", "U+DF0B",
          "U+DF0C", "U+DF0D", "U+DF0E", "U+DF0F", "U+DF10", "U+DF11",
          "U+DF12", "U+DF13", "U+DF14", "U+DF15", "U+DF16", "U+DF17",
          "U+DF18", "U+DF19", "U+DF1A", "U+DF1B", "U+DF1C", "U+DF1D",
          "U+DF1E", "U+DF1F", "U+DF20", "U+DF21", "U+DF22", "U+DF23",
          "U+DF24", "U+DF25", "U+DF26", "U+DF27", "U+DF28", "U+DF29",
          "U+DF2A", "U+DF2B", "U+DF2C", "U+DF2D", "U+DF30", "U+DF31",
          "U+DF32", "U+DF33", "U+DF34", "U+DF35", "U+DF36", "U+DF37",
          "U+DF38", "U+DF39", "U+DF3A", "U+DF3B", "U+DF3C", "U+DF3D",
          "U+DF3E", "U+DF3F", "U+DF40", "U+DF41", "U+DF42", "U+DF43",
          "U+DF44", "U+DF45", "U+DF46" })
    \cup ({"U+D834"} \X
        { "U+DD67", "U+DD68", "U+DD69", "U+DD73", "U+DD74", "U+DD75",
          "U+DD76", "U+DD77", "U+DD78", "U+DD79", "U+DD7A", "U+DD7B",
          "U+DD7C", "U+DD7D", "U+DD7E", "U+DD7F", "U+DD80", "U+DD81",
          "U+DD82", "U+DD85", "U+DD86", "U+DD87", "U+DD88", "U+DD89",
          "U+DD8A", "U+DD8B", "U+DDAA", "U+DDAB", "U+DDAC", "U+DDAD",
          "U+DE42", "U+DE43", "U+DE44" })
    \cup ({"U+D836"} \X
        { "U+DE00", "U+DE01", "U+DE02", "U+DE03", "U+DE04", "U+DE05",
          "U+DE06", "U+DE07", "U+DE08", "U+DE09", "U+DE0A", "U+DE0B",
          "U+DE0C", "U+DE0D", "U+DE0E", "U+DE0F", "U+DE10", "U+DE11",
          "U+DE12", "U+DE13", "U+DE14", "U+DE15", "U+DE16", "U+DE17",
          "U+DE18", "U+DE19", "U+DE1A", "U+DE1B", "U+DE1C", "U+DE1D",
          "U+DE1E", "U+DE1F", "U+DE20", "U+DE21", "U+DE22", "U+DE23",
          "U+DE24", "U+DE25", "U+DE26", "U+DE27", "U+DE28", "U+DE29",
          "U+DE2A", "U+DE2B", "U+DE2C", "U+DE2D", "U+DE2E", "U+DE2F",
          "U+DE30", "U+DE31", "U+DE32", "U+DE33", "U+DE34", "U+DE35",
          "U+DE36", "U+DE3B", "U+DE3C", "U+DE3D", "U+DE3E", "U+DE3F",
          "U+DE40", "U+DE41", "U+DE42", "U+DE43", "U+DE44", "U+DE45",
          "U+DE46", "U+DE47", "U+DE48", "U+DE49", "U+DE4A", "U+DE4B",
          "U+DE4C", "U+DE4D", "U+DE4E", "U+DE4F", "U+DE50", "U+DE51",
          "U+DE52", "U+DE53", "U+DE54", "U+DE55", "U+DE56", "U+DE57",
          "U+DE58", "U+DE59", "U+DE5A", "U+DE5B", "U+DE5C", "U+DE5D",
          "U+DE5E", "U+DE5F", "U+DE60", "U+DE61", "U+DE62", "U+DE63",
          "U+DE64", "U+DE65", "U+DE66", "U+DE67", "U+DE68", "U+DE69",
          "U+DE6A", "U+DE6B", "U+DE6C", "U+DE75", "U+DE84", "U+DE9B",
          "U+DE9C", "U+DE9D", "U+DE9E", "U+DE9F", "U+DEA1", "U+DEA2",
          "U+DEA3", "U+DEA4", "U+DEA5", "U+DEA6", "U+DEA7", "U+DEA8",
          "U+DEA9", "U+DEAA", "U+DEAB", "U+DEAC", "U+DEAD", "U+DEAE",
          "U+DEAF" })
    \cup ({"U+D838"} \X
        { "U+DC00", "U+DC01", "U+DC02", "U+DC03", "U+DC04", "U+DC05",
          "U+DC06", "U+DC08", "U+DC09", "U+DC0A", "U+DC0B", "U+DC0C",
          "U+DC0D", "U+DC0E", "U+DC0F", "U+DC10", "U+DC11", "U+DC12",
          "U+DC13", "U+DC14", "U+DC15", "U+DC16", "U+DC17", "U+DC18",
          "U+DC1B", "U+DC1C", "U+DC1D", "U+DC1E", "U+DC1F", "U+DC20",
          "U+DC21", "U+DC23", "U+DC24", "U+DC26", "U+DC27", "U+DC28",
          "U+DC29", "U+DC2A", "U+DC30", "U+DC31", "U+DC32", "U+DC33",
          "U+DC34", "U+DC35", "U+DC36", "U+DC37", "U+DC38", "U+DC39",
          "U+DC3A", "U+DC3B", "U+DC3C", "U+DC3D", "U+DC3E", "U+DC3F",
          "U+DC40", "U+DC41", "U+DC42", "U+DC43", "U+DC44", "U+DC45",
          "U+DC46", "U+DC47", "U+DC48", "U+DC49", "U+DC4A", "U+DC4B",
          "U+DC4C", "U+DC4D", "U+DC4E", "U+DC4F", "U+DC50", "U+DC51",
          "U+DC52", "U+DC53", "U+DC54", "U+DC55", "U+DC56", "U+DC57",
          "U+DC58", "U+DC59", "U+DC5A", "U+DC5B", "U+DC5C", "U+DC5D",
          "U+DC5E", "U+DC5F", "U+DC60", "U+DC61", "U+DC62", "U+DC63",
          "U+DC64", "U+DC65", "U+DC66", "U+DC67", "U+DC68", "U+DC69",
          "U+DC6A", "U+DC6B", "U+DC6C", "U+DC6D", "U+DC8F", "U+DD30",
          "U+DD31", "U+DD32", "U+DD33", "U+DD34", "U+DD35", "U+DD36",
          "U+DD37", "U+DD38", "U+DD39", "U+DD3A", "U+DD3B", "U+DD3C",
          "U+DD3D", "U+DEAE", "U+DEEC", "U+DEED", "U+DEEE", "U+DEEF" })
    \cup ({"U+D839"} \X
        { "U+DCEB", "U+DCEC", "U+DCED", "U+DCEE", "U+DCEF", "U+DDEE",
          "U+DDEF", "U+DEE3", "U+DEE6", "U+DEEE", "U+DEEF", "U+DEF5",
          "U+DEFF" })
    \cup ({"U+D83A"} \X
        { "U+DCD0", "U+DCD1", "U+DCD2", "U+DCD3", "U+DCD4", "U+DCD5",
          "U+DCD6", "U+DD44", "U+DD45", "U+DD46", "U+DD47", "U+DD48",
          "U+DD49", "U+DD4A", "U+DD4B" })
    \cup ({"U+D83C"} \X
        { "U+DFFB", "U+DFFC", "U+DFFD", "U+DFFE", "U+DFFF" })
    \cup ({"U+DB40"} \X
        { "U+DC01", "U+DC20", "U+DC21", "U+DC22", "U+DC23", "U+DC24",
          "U+DC25", "U+DC26", "U+DC27", "U+DC28", "U+DC29", "U+DC2A",
          "U+DC2B", "U+DC2C", "U+DC2D", "U+DC2E", "U+DC2F", "U+DC30",
          "U+DC31", "U+DC32", "U+DC33", "U+DC34", "U+DC35", "U+DC36",
          "U+DC37", "U+DC38", "U+DC39", "U+DC3A", "U+DC3B", "U+DC3C",
          "U+DC3D", "U+DC3E", "U+DC3F", "U+DC40", "U+DC41", "U+DC42",
          "U+DC43", "U+DC44", "U+DC45", "U+DC46", "U+DC47", "U+DC48",
          "U+DC49", "U+DC4A", "U+DC4B", "U+DC4C", "U+DC4D", "U+DC4E",
          "U+DC4F", "U+DC50", "U+DC51", "U+DC52", "U+DC53", "U+DC54",
          "U+DC55", "U+DC56", "U+DC57", "U+DC58", "U+DC59", "U+DC5A",
          "U+DC5B", "U+DC5C", "U+DC5D", "U+DC5E", "U+DC5F", "U+DC60",
          "U+DC61", "U+DC62", "U+DC63", "U+DC64", "U+DC65", "U+DC66",
          "U+DC67", "U+DC68", "U+DC69", "U+DC6A", "U+DC6B", "U+DC6C",
          "U+DC6D", "U+DC6E", "U+DC6F", "U+DC70", "U+DC71", "U+DC72",
          "U+DC73", "U+DC74", "U+DC75", "U+DC76", "U+DC77", "U+DC78",
          "U+DC79", "U+DC7A", "U+DC7B", "U+DC7C", "U+DC7D", "U+DC7E",
          "U+DC7F", "U+DD00", "U+DD01", "U+DD02", "U+DD03", "U+DD04",
          "U+DD05", "U+DD06", "U+DD07", "U+DD08", "U+DD09", "U+DD0A",
          "U+DD0B", "U+DD0C", "U+DD0D", "U+DD0E", "U+DD0F", "U+DD10",
          "U+DD11", "U+DD12", "U+DD13", "U+DD14", "U+DD15", "U+DD16",
          "U+DD17", "U+DD18", "U+DD19", "U+DD1A", "U+DD1B", "U+DD1C",
          "U+DD1D", "U+DD1E", "U+DD1F", "U+DD20", "U+DD21", "U+DD22",
          "U+DD23", "U+DD24", "U+DD25", "U+DD26", "U+DD27", "U+DD28",
          "U+DD29", "U+DD2A", "U+DD2B", "U+DD2C", "U+DD2D", "U+DD2E",
          "U+DD2F", "U+DD30", "U+DD31", "U+DD32", "U+DD33", "U+DD34",
          "U+DD35", "U+DD36", "U+DD37", "U+DD38", "U+DD39", "U+DD3A",
          "U+DD3B", "U+DD3C", "U+DD3D", "U+DD3E", "U+DD3F", "U+DD40",
          "U+DD41", "U+DD42", "U+DD43", "U+DD44", "U+DD45", "U+DD46",
          "U+DD47", "U+DD48", "U+DD49", "U+DD4A", "U+DD4B", "U+DD4C",
          "U+DD4D", "U+DD4E", "U+DD4F", "U+DD50", "U+DD51", "U+DD52",
          "U+DD53", "U+DD54", "U+DD55", "U+DD56", "U+DD57", "U+DD58",
          "U+DD59", "U+DD5A", "U+DD5B", "U+DD5C", "U+DD5D", "U+DD5E",
          "U+DD5F", "U+DD60", "U+DD61", "U+DD62", "U+DD63", "U+DD64",
          "U+DD65", "U+DD66", "U+DD67", "U+DD68", "U+DD69", "U+DD6A",
          "U+DD6B", "U+DD6C", "U+DD6D", "U+DD6E", "U+DD6F", "U+DD70",
          "U+DD71", "U+DD72", "U+DD73", "U+DD74", "U+DD75", "U+DD76",
          "U+DD77", "U+DD78", "U+DD79", "U+DD7A", "U+DD7B", "U+DD7C",
          "U+DD7D", "U+DD7E", "U+DD7F", "U+DD80", "U+DD81", "U+DD82",
          "U+DD83", "U+DD84", "U+DD85", "U+DD86", "U+DD87", "U+DD88",
          "U+DD89", "U+DD8A", "U+DD8B", "U+DD8C", "U+DD8D", "U+DD8E",
          "U+DD8F", "U+DD90", "U+DD91", "U+DD92", "U+DD93", "U+DD94",
          "U+DD95", "U+DD96", "U+DD97", "U+DD98", "U+DD99", "U+DD9A",
          "U+DD9B", "U+DD9C", "U+DD9D", "U+DD9E", "U+DD9F", "U+DDA0",
          "U+DDA1", "U+DDA2", "U+DDA3", "U+DDA4", "U+DDA5", "U+DDA6",
          "U+DDA7", "U+DDA8", "U+DDA9", "U+DDAA", "U+DDAB", "U+DDAC",
          "U+DDAD", "U+DDAE", "U+DDAF", "U+DDB0", "U+DDB1", "U+DDB2",
          "U+DDB3", "U+DDB4", "U+DDB5", "U+DDB6", "U+DDB7", "U+DDB8",
          "U+DDB9", "U+DDBA", "U+DDBB", "U+DDBC", "U+DDBD", "U+DDBE",
          "U+DDBF", "U+DDC0", "U+DDC1", "U+DDC2", "U+DDC3", "U+DDC4",
          "U+DDC5", "U+DDC6", "U+DDC7", "U+DDC8", "U+DDC9", "U+DDCA",
          "U+DDCB", "U+DDCC", "U+DDCD", "U+DDCE", "U+DDCF", "U+DDD0",
          "U+DDD1", "U+DDD2", "U+DDD3", "U+DDD4", "U+DDD5", "U+DDD6",
          "U+DDD7", "U+DDD8", "U+DDD9", "U+DDDA", "U+DDDB", "U+DDDC",
          "U+DDDD", "U+DDDE", "U+DDDF", "U+DDE0", "U+DDE1", "U+DDE2",
          "U+DDE3", "U+DDE4", "U+DDE5", "U+DDE6", "U+DDE7", "U+DDE8",
          "U+DDE9", "U+DDEA", "U+DDEB", "U+DDEC", "U+DDED", "U+DDEE",
          "U+DDEF" })

\* The characters with the property Cased (letters in upper, lower or title
\* case) that are not Case_Ignorable, likewise (version 17.0).
Cased ==
    { "A", "B", "C", "D", "E", "F", "G", "H", "I", "J", "K", "L", "M", "N",
      "O", "P", "Q", "R", "S", "T", "U", "V", "W", "X", "Y", "Z", "a", "b",
      "c", "d", "e", "f", "g", "h", "i", "j", "k", "l", "m", "n", "o", "p",
      "q", "r", "s", "t", "u", "v", "w", "x", "y", "z", "U+00AA", "U+00B5",
      "U+00BA", "U+00C0", "U+00C1", "U+00C2", "U+00C3", "U+00C4", "U+00C5",
      "U+00C6", "U+00C7", "U+00C8", "U+00C9", "U+00CA", "U+00CB", "U+00CC",
      "U+00CD", "U+00CE", "U+00CF", "U+00D0", "U+00D1", "U+00D2", "U+00D3",
      "U+00D4", "U+00D5", "U+00D6", "U+00D8", "U+00D9", "U+00DA", "U+00DB",
      "U+00DC", "U+00DD", "U+00DE", "U+00DF", "U+00E0", "U+00E1", "U+00E2",
      "U+00E3", "U+00E4", "U+00E5", "U+00E6", "U+00E7", "U+00E8", "U+00E9",
      "U+00EA", "U+00EB", "U+00EC", "U+00ED", "U+00EE", "U+00EF", "U+00F0",
      "U+00F1", "U+00F2", "U+00F3", "U+00F4", "U+00F5", "U+00F6", "U+00F8",
      "U+00F9", "U+00FA", "U+00FB", "U+00FC", "U+00FD", "U+00FE", "U+00FF",
      "U+0100", "U+0101", "U+0102", "U+0103", "U+0104", "U+0105", "U+0106",
      "U+0107", "U+0108", "U+0109", "U+010A", "U+010B", "U+010C", "U+010D",
      "U+010E", "U+010F", "U+0110", "U+0111", "U+0112", "U+0113", "U+0114",
      "U+0115", "U+0116", "U+0117", "U+0118", "U+0119", "U+011A", "U+011B",
      "U+011C", "U+011D", "U+011E", "U+011F", "U+0120", "U+0121", "U+0122",
      "U+0123", "U+0124", "U+0125", "U+0126", "U+0127", "U+0128", "U+0129",
      "U+012A", "U+012B", "U+012C", "U+012D", "U+012E", "U+012F", "U+0130",
      "U+0131", "U+0132", "U+0133", "U+0134", "U+0135", "U+0136", "U+0137",
      "U+0138", "U+0139", "U+013A", "U+013B", "U+013C", "U+013D", "U+013E",
      "U+013F", "U+0140", "U+0141", "U+0142", "U+0143", "U+0144", "U+0145",
      "U+0146", "U+0147", "U+0148", "U+0149", "U+014A", "U+014B", "U+014C",
      "U+014D", "U+014E", "U+014F", "U+0150", "U+0151", "U+0152", "U+0153",
      "U+0154", "U+0155", "U+0156", "U+0157", "U+0158", "U+0159", "U+015A",
      "U+015B", "U+015C", "U+015D", "U+015E", "U+015F", "U+0160", "U+0161",
      "U+0162", "U+0163", "U+0164", "U+0165", "U+0166", "U+0167", "U+0168",
      "U+0169", "U+016A", "U+016B", "U+016C", "U+016D", "U+016E", "U+016F",
      "U+0170", "U+0171", "U+0172", "U+0173", "U+0174", "U+0175", "U+0176",
      "U+0177", "U+0178", "U+0179", "U+017A", "U+017B", "U+017C", "U+017D",
      "U+017E", "U+017F", "U+0180", "U+0181", "U+0182", "U+0183", "U+0184",
      "U+0185", "U+0186", "U+0187", "U+0188", "U+0189", "U+018A", "U+018B",
      "U+018C", "U+018D", "U+018E", "U+018F", "U+0190", "U+0191", "U+0192",
      "U+0193", "U+0194", "U+0195", "U+0196", "U+0197", "U+0198", "U+0199",
      "U+019A", "U+019B", "U+019C", "U+019D", "U+019E", "U+019F", "U+01A0",
      "U+01A1", "U+01A2", "U+01A3", "U+01A4", "U+01A5", "U+01A6", "U+01A7",
      "U+01A8", "U+01A9", "U+01AA", "U+01AB", "U+01AC", "U+01AD", "U+01AE",
      "U+01AF", "U+01B0", "U+01B1", "U+01B2", "U+01B3", "U+01B4", "U+01B5",
      "U+01B6", "U+01B7", "U+01B8", "U+01B9", "U+01BA", "U+01BC", "U+01BD",
      "U+01BE", "U+01BF", "U+01C4", "U+01C5", "U+01C6", "U+01C7", "U+01C8",
      "U+01C9", "U+01CA", "U+01CB", "U+01CC", "U+01CD", "U+01CE", "U+01CF",
      "U+01D0", "U+01D1", "U+01D2", "U+01D3", "U+01D4", "U+01D5", "U+01D6",
      "U+01D7", "U+01D8", "U+01D9", "U+01DA", "U+01DB", "U+01DC", "U+01DD",
      "U+01DE", "U+01DF", "U+01E0", "U+01E1", "U+01E2", "U+01E3", "U+01E4",
      "U+01E5", "U+01E6", "U+01E7", "U+01E8", "U+01E9", "U+01EA", "U+01EB",
      "U+01EC", "U+01ED", "U+01EE", "U+01EF", "U+01F0", "U+01F1", "U+01F2",
      "U+01F3", "U+01F4", "U+01F5", "U+01F6", "U+01F7", "U+01F8", "U+01F9",
      "U+01FA", "U+01FB", "U+01FC", "U+01FD", "U+01FE", "U+01FF", "U+0200",
      "U+0201", "U+0202", "U+0203", "U+0204", "U+0205", "U+0206", "U+0207",
      "U+0208", "U+0209", "U+020A", "U+020B", "U+020C", "U+020D", "U+020E",
      "U+020F", "U+0210", "U+0211", "U+0212", "U+0213", "U+0214", "U+0215",
      "U+0216", "U+0217", "U+0218", "U+0219", "U+021A", "U+021B", "U+021C",
      "U+021D", "U+021E", "U+021F", "U+0220", "U+0221", "U+0222", "U+0223",
      "U+0224", "U+0225", "U+0226", "U+0227", "U+0228", "U+0229", "U+022A",
      "U+022B", "U+022C", "U+022D", "U+022E", "U+022F", "U+0230", "U+0231",
      "U+0232", "U+0233", "U+0234", "U+0235", "U+0236", "U+0237", "U+0238",
      "U+0239", "U+023A", "U+023B", "U+023C", "U+023D", "U+023E", "U+023F",
      "U+0240", "U+0241", "U+0242", "U+0243", "U+0244", "U+0245", "U+0246",
      "U+0247", "U+0248", "U+0249", "U+024A", "U+024B", "U+024C", "U+024D",
      "U+024E", "U+024F", "U+0250", "U+0251", "U+0252", "U+0253", "U+0254",
      "U+0255", "U+0256", "U+0257", "U+0258", "U+0259", "U+025A", "U+025B",
      "U+025C", "U+025D", "U+025E", "U+025F", "U+0260", "U+0261", "U+0262",
      "U+0263", "U+0264", "U+0265", "U+0266", "U+0267", "U+0268", "U+0269",
      "U+026A", "U+026B", "U+026C", "U+026D", "U+026E", "U+026F", "U+0270",
      "U+0271", "U+0272", "U+0273", "U+0274", "U+0275", "U+0276", "U+0277",
      "U+0278", "U+0279", "U+027A", "U+027B", "U+027C", "U+027D", "U+027E",
      "U+027F", "U+0280", "U+0281", "U+0282", "U+0283", "U+0284", "U+0285",
      "U+0286", "U+0287", "U+0288", "U+0289", "U+028A", "U+028B", "U+028C",
      "U+028D", "U+028E", "U+028F", "U+0290", "U+0291", "U+0292", "U+0293",
      "U+0296", "U+0297", "U+0298", "U+0299", "U+029A", "U+029B", "U+029C",
      "U+029D", "U+029E", "U+029F", "U+02A0", "U+02A1", "U+02A2", "U+02A3",
      "U+02A4", "U+02A5", "U+02A6", "U+02A7", "U+02A8", "U+02A9", "U+02AA",
      "U+02AB", "U+02AC", "U+02AD", "U+02AE", "U+02AF", "U+0370", "U+0371",
      "U+0372", "U+0373", "U+0376", "U+0377", "U+037B", "U+037C", "U+037D",
      "U+037F", "U+0386", "U+0388", "U+0389", "U+038A", "U+038C", "U+038E",
      "U+038F", "U+0390", "U+0391", "U+0392", "U+0393", "U+0394", "U+0395",
      "U+0396", "U+0397", "U+0398", "U+0399", "U+039A", "U+039B", "U+039C",
      "U+039D", "U+039E", "U+039F", "U+03A0", "U+03A1", "U+03A3", "U+03A4",
      "U+03A5", "U+03A6", "U+03A7", "U+03A8", "U+03A9", "U+03AA", "U+03AB",
      "U+03AC", "U+03AD", "U+03AE", "U+03AF", "U+03B0", "U+03B1", "U+03B2",
      "U+03B3", "U+03B4", "U+03B5", "U+03B6", "U+03B7", "U+03B8", "U+03B9",
      "U+03BA", "U+03BB", "U+03BC", "U+03BD", "U+03BE", "U+03BF", "U+03C0",
      "U+03C1", "U+03C2", "U+03C3", "U+03C4", "U+03C5", "U+03C6", "U+03C7",
      "U+03C8", "U+03C9", "U+03CA", "U+03CB", "U+03CC", "U+03CD", "U+03CE",
      "U+03CF", "U+03D0", "U+03D1", "U+03D2", "U+03D3", "U+03D4", "U+03D5",
      "U+03D6", "U+03D7", "U+03D8", "U+03D9", "U+03DA", "U+03DB", "U+03DC",
      "U+03DD", "U+03DE", "U+03DF", "U+03E0", "U+03E1", "U+03E2", "U+03E3",
      "U+03E4", "U+03E5", "U+03E6", "U+03E7", "U+03E8", "U+03E9", "U+03EA",
      "U+03EB", "U+03EC", "U+03ED", "U+03EE", "U+03EF", "U+03F0", "U+03F1",
      "U+03F2", "U+03F3", "U+03F4", "U+03F5", "U+03F7", "U+03F8", "U+03F9",
      "U+03FA", "U+03FB", "U+03FC", "U+03FD", "U+03FE", "U+03FF", "U+0400",
      "U+0401", "U+0402", "U+0403", "U+0404", "U+0405", "U+0406", "U+0407",
      "U+0408", "U+0409", "U+040A", "U+040B", "U+040C", "U+040D", "U+040E",
      "U+040F", "U+0410", "U+0411", "U+0412", "U+0413", "U+0414", "U+0415",
      "U+0416", "U+0417", "U+0418", "U+0419", "U+041A", "U+041B", "U+041C",
      "U+041D", "U+041E", "U+041F", "U+0420", "U+0421", "U+0422", "U+0423",
      "U+0424", "U+0425", "U+0426", "U+0427", "U+0428", "U+0429", "U+042A",
      "U+042B", "U+042C", "U+042D", "U+042E", "U+042F", "U+0430", "U+0431",
      "U+0432", "U+0433", "U+0434", "U+0435", "U+0436", "U+0437", "U+0438",
      "U+0439", "U+043A", "U+043B", "U+043C", "U+043D", "U+043E", "U+043F",
      "U+0440", "U+0441", "U+0442", "U+0443", "U+0444", "U+0445", "U+0446",
      "U+0447", "U+0448", "U+0449", "U+044A", "U+044B", "U+044C", "U+044D",
      "U+044E", "U+044F", "U+0450", "U+0451", "U+0452", "U+0453", "U+0454",
      "U+0455", "U+0456", "U+0457", "U+0458", "U+0459", "U+045A", "U+045B",
      "U+045C", "U+045D", "U+045E", "U+045F", "U+0460", "U+0461", "U+0462",
      "U+0463", "U+0464", "U+0465", "U+0466", "U+0467", "U+0468", "U+0469",
      "U+046A", "U+046B", "U+046C", "U+046D", "U+046E", "U+046F", "U+0470",
      "U+0471", "U+0472", "U+0473", "U+0474", "U+0475", "U+0476", "U+0477",
      "U+0478", "U+0479", "U+047A", "U+047B", "U+047C", "U+047D", "U+047E",
      "U+047F", "U+0480", "U+0481", "U+048A", "U+048B", "U+048C", "U+048D",
      "U+048E", "U+048F", "U+0490", "U+0491", "U+0492", "U+0493", "U+0494",
      "U+0495", "U+0496", "U+0497", "U+0498", "U+0499", "U+049A", "U+049B",
      "U+049C", "U+049D", "U+049E", "U+049F", "U+04A0", "U+04A1", "U+04A2",
      "U+04A3", "U+04A4", "U+04A5", "U+04A6", "U+04A7", "U+04A8", "U+04A9",
      "U+04AA", "U+04AB", "U+04AC", "U+04AD", "U+04AE", "U+04AF", "U+04B0",
      "U+04B1", "U+04B2", "U+04B3", "U+04B4", "U+04B5", "U+04B6", "U+04B7",
      "U+04B8", "U+04B9", "U+04BA", "U+04BB", "U+04BC", "U+04BD", "U+04BE",
      "U+04BF", "U+04C0", "U+04C1", "U+04C2", "U+04C3", "U+04C4", "U+04C5",
      "U+04C6", "U+04C7", "U+04C8", "U+04C9", "U+04CA", "U+04CB", "U+04CC",
      "U+04CD", "U+04CE", "U+04CF", "U+04D0", "U+04D1", "U+04D2", "U+04D3",
      "U+04D4", "U+04D5", "U+04D6", "U+04D7", "U+04D8", "U+04D9", "U+04DA",
      "U+04DB", "U+04DC", "U+04DD", "U+04DE", "U+04DF", "U+04E0", "U+04E1",
      "U+04E2", "U+04E3", "U+04E4", "U+04E5", "U+04E6", "U+04E7", "U+04E8",
      "U+04E9", "U+04EA", "U+04EB", "U+04EC", "U+04ED", "U+04EE", "U+04EF",
      "U+04F0", "U+04F1", "U+04F2", "U+04F3", "U+04F4", "U+04F5", "U+04F6",
      "U+04F7", "U+04F8", "U+04F9", "U+04FA", "U+04FB", "U+04FC", "U+04FD",
      "U+04FE", "U+04FF", "U+0500", "U+0501", "U+0502", "U+0503", "U+0504",
      "U+0505", "U+0506", "U+0507", "U+0508", "U+0509", "U+050A", "U+050B",
      "U+050C", "U+050D", "U+050E", "U+050F", "U+0510", "U+0511", "U+0512",
      "U+0513", "U+0514", "U+0515", "U+0516", "U+0517", "U+0518", "U+0519",
      "U+051A", "U+051B", "U+051C", "U+051D", "U+051E", "U+051F", "U+0520",
      "U+0521", "U+0522", "U+0523", "U+0524", "U+0525", "U+0526", "U+0527",
      "U+0528", "U+0529", "U+052A", "U+052B", "U+052C", "U+052D", "U+052E",
      "U+052F", "U+0531", "U+0532", "U+0533", "U+0534", "U+0535", "U+0536",
      "U+0537", "U+0538", "U+0539", "U+053A", "U+053B", "U+053C", "U+053D",
      "U+053E", "U+053F", "U+0540", "U+0541", "U+0542", "U+0543", "U+0544",
      "U+0545", "U+0546", "U+0547", "U+0548", "U+0549", "U+054A", "U+054B",
      "U+054C", "U+054D", "U+054E", "U+054F", "U+0550", "U+0551", "U+0552",
      "U+0553", "U+0554", "U+0555", "U+0556", "U+0560", "U+0561", "U+0562",
      "U+0563", "U+0564", "U+0565", "U+0566", "U+0567", "U+0568", "U+0569",
      "U+056A", "U+056B", "U+056C", "U+056D", "U+056E", "U+056F", "U+0570",
      "U+0571", "U+0572", "U+0573", "U+0574", "U+0575", "U+0576", "U+0577",
      "U+0578", "U+0579", "U+057A", "U+057B", "U+057C", "U+057D", "U+057E",
      "U+057F", "U+0580", "U+0581", "U+0582", "U+0583", "U+0584", "U+0585",
      "U+0586", "U+0587", "U+0588", "U+10A0", "U+10A1", "U+10A2", "U+10A3",
      "U+10A4", "U+10A5", "U+10A6", "U+10A7", "U+10A8", "U+10A9", "U+10AA",
      "U+10AB", "U+10AC", "U+10AD", "U+10AE", "U+10AF", "U+10B0", "U+10B1",
      "U+10B2", "U+10B3", "U+10B4", "U+10B5", "U+10B6", "U+10B7", "U+10B8",
      "U+10B9", "U+10BA", "U+10BB", "U+10BC", "U+10BD", "U+10BE", "U+10BF",
      "U+10C0", "U+10C1", "U+10C2", "U+10C3", "U+10C4", "U+10C5", "U+10C7",
      "U+10CD", "U+10D0", "U+10D1", "U+10D2", "U+10D3", "U+10D4", "U+10D5",
      "U+10D6", "U+10D7", "U+10D8", "U+10D9", "U+10DA", "U+10DB", "U+10DC",
      "U+10DD", "U+10DE", "U+10DF", "U+10E0", "U+10E1", "U+10E2", "U+10E3",
      "U+10E4", "U+10E5", "U+10E6", "U+10E7", "U+10E8", "U+10E9", "U+10EA",
      "U+10EB", "U+10EC", "U+10ED", "U+10EE", "U+10EF", "U+10F0", "U+10F1",
      "U+10F2", "U+10F3", "U+10F4", "U+10F5", "U+10F6", "U+10F7", "U+10F8",
      "U+10F9", "U+10FA", "U+10FD", "U+10FE", "U+10FF", "U+13A0", "U+13A1",
      "U+13A2", "U+13A3", "U+13A4", "U+13A5", "U+13A6", "U+13A7", "U+13A8",
      "U+13A9", "U+13AA", "U+13AB", "U+13AC", "U+13AD", "U+13AE", "U+13AF",
      "U+13B0", "U+13B1", "U+13B2", "U+13B3", "U+13B4", "U+13B5", "U+13B6",
      "U+13B7", "U+13B8", "U+13B9", "U+13BA", "U+13BB", "U+13BC", "U+13BD",
      "U+13BE", "U+13BF", "U+13C0", "U+13C1", "U+13C2", "U+13C3", "U+13C4",
      "U+13C5", "U+13C6", "U+13C7", "U+13C8", "U+13C9", "U+13CA", "U+13CB",
      "U+13CC", "U+13CD", "U+13CE", "U+13CF", "U+13D0", "U+13D1", "U+13D2",
      "U+13D3", "U+13D4", "U+13D5", "U+13D6", "U+13D7", "U+13D8", "U+13D9",
      "U+13DA", "U+13DB", "U+13DC", "U+13DD", "U+13DE", "U+13DF", "U+13E0",
      "U+13E1", "U+13E2", "U+13E3", "U+13E4", "U+13E5", "U+13E6", "U+13E7",
      "U+13E8", "U+13E9", "U+13EA", "U+13EB", "U+13EC", "U+13ED", "U+13EE",
      "U+13EF", "U+13F0", "U+13F1", "U+13F2", "U+13F3", "U+13F4", "U+13F5",
      "U+13F8", "U+13F9", "U+13FA", "U+13FB", "U+13FC", "U+13FD", "U+1C80",
      "U+1C81", "U+1C82", "U+1C83", "U+1C84", "U+1C85", "U+1C86", "U+1C87",
      "U+1C88", "U+1C89", "U+1C8A", "U+1C90", "U+1C91", "U+1C92", "U+1C93",
      "U+1C94", "U+1C95", "U+1C96", "U+1C97", "U+1C98", "U+1C99", "U+1C9A",
      "U+1C9B", "U+1C9C", "U+1C9D", "U+1C9E", "U+1C9F", "U+1CA0", "U+1CA1",
      "U+1CA2", "U+1CA3", "U+1CA4", "U+1CA5", "U+1CA6", "U+1CA7", "U+1CA8",
      "U+1CA9", "U+1CAA", "U+1CAB", "U+1CAC", "U+1CAD", "U+1CAE", "U+1CAF",
      "U+1CB0", "U+1CB1", "U+1CB2", "U+1CB3", "U+1CB4", "U+1CB5", "U+1CB6",
      "U+1CB7", "U+1CB8", "U+1CB9", "U+1CBA", "U+1CBD", "U+1CBE", "U+1CBF",
      "U+1D00", "U+1D01", "U+1D02", "U+1D03", "U+1D04", "U+1D05", "U+1D06",
      "U+1D07", "U+1D08", "U+1D09", "U+1D0A", "U+1D0B", "U+1D0C", "U+1D0D",
      "U+1D0E", "U+1D0F", "U+1D10", "U+1D11", "U+1D12", "U+1D13", "U+1D14",
      "U+1D15", "U+1D16", "U+1D17", "U+1D18", "U+1D19", "U+1D1A", "U+1D1B",
      "U+1D1C", "U+1D1D", "U+1D1E", "U+1D1F", "U+1D20", "U+1D21", "U+1D22",
      "U+1D23", "U+1D24", "U+1D25", "U+1D26", "U+1D27", "U+1D28", "U+1D29",
      "U+1D2A", "U+1D2B", "U+1D6B", "U+1D6C", "U+1D6D", "U+1D6E", "U+1D6F",
      "U+1D70", "U+1D71", "U+1D72", "U+1D73", "U+1D74", "U+1D75", "U+1D76",
      "U+1D77", "U+1D79", "U+1D7A", "U+1D7B", "U+1D7C", "U+1D7D", "U+1D7E",
      "U+1D7F", "U+1D80", "U+1D81", "U+1D82", "U+1D83", "U+1D84", "U+1D85",
      "U+1D86", "U+1D87", "U+1D88", "U+1D89", "U+1D8A", "U+1D8B", "U+1D8C",
      "U+1D8D", "U+1D8E", "U+1D8F", "U+1D90", "U+1D91", "U+1D92", "U+1D93",
      "U+1D94", "U+1D95", "U+1D96", "U+1D97", "U+1D98", "U+1D99", "U+1D9A",
      "U+1E00", "U+1E01", "U+1E02", "U+1E03", "U+1E04", "U+1E05", "U+1E06",
      "U+1E07", "U+1E08", "U+1E09", "U+1E0A", "U+1E0B", "U+1E0C", "U+1E0D",
      "U+1E0E", "U+1E0F", "U+1E10", "U+1E11", "U+1E12", "U+1E13", "U+1E14",
      "U+1E15", "U+1E16", "U+1E17", "U+1E18", "U+1E19", "U+1E1A", "U+1E1B",
      "U+1E1C", "U+1E1D", "U+1E1E", "U+1E1F", "U+1E20", "U+1E21", "U+1E22",
      "U+1E23", "U+1E24", "U+1E25", "U+1E26", "U+1E27", "U+1E28", "U+1E29",
      "U+1E2A", "U+1E2B", "U+1E2C", "U+1E2D", "U+1E2E", "U+1E2F", "U+1E30",
      "U+1E31", "U+1E32", "U+1E33", "U+1E34", "U+1E35", "U+1E36", "U+1E37",
      "U+1E38", "U+1E39", "U+1E3A", "U+1E3B", "U+1E3C", "U+1E3D", "U+1E3E",
      "U+1E3F", "U+1E40", "U+1E41", "U+1E42", "U+1E43", "U+1E44", "U+1E45",
      "U+1E46", "U+1E47", "U+1E48", "U+1E49", "U+1E4A", "U+1E4B", "U+1E4C",
      "U+1E4D", "U+1E4E", "U+1E4F", "U+1E50", "U+1E51", "U+1E52", "U+1E53",
      "U+1E54", "U+1E55", "U+1E56", "U+1E57", "U+1E58", "U+1E59", "U+1E5A",
      "U+1E5B", "U+1E5C", "U+1E5D", "U+1E5E", "U+1E5F", "U+1E60", "U+1E61",
      "U+1E62", "U+1E63", "U+1E64", "U+1E65", "U+1E66", "U+1E67", "U+1E68",
      "U+1E69", "U+1E6A", "U+1E6B", "U+1E6C", "U+1E6D", "U+1E6E", "U+1E6F",
      "U+1E70", "U+1E71", "U+1E72", "U+1E73", "U+1E74", "U+1E75", "U+1E76",
      "U+1E77", "U+1E78", "U+1E79", "U+1E7A", "U+1E7B", "U+1E7C", "U+1E7D",
      "U+1E7E", "U+1E7F", "U+1E80", "U+1E81", "U+1E82", "U+1E83", "U+1E84",
      "U+1E85", "U+1E86", "U+1E87", "U+1E88", "U+1E89", "U+1E8A", "U+1E8B",
      "U+1E8C", "U+1E8D", "U+1E8E", "U+1E8F", "U+1E90", "U+1E91", "U+1E92",
      "U+1E93", "U+1E94", "U+1E95", "U+1E96", "U+1E97", "U+1E98", "U+1E99",
      "U+1E9A", "U+1E9B", "U+1E9C", "U+1E9D", "U+1E9E", "U+1E9F", "U+1EA0",
      "U+1EA1", "U+1EA2", "U+1EA3", "U+1EA4", "U+1EA5", "U+1EA6", "U+1EA7",
      "U+1EA8", "U+1EA9", "U+1EAA", "U+1EAB", "U+1EAC", "U+1EAD", "U+1EAE",
      "U+1EAF", "U+1EB0", "U+1EB1", "U+1EB2", "U+1EB3", "U+1EB4", "U+1EB5",
      "U+1EB6", "U+1EB7", "U+1EB8", "U+1EB9", "U+1EBA", "U+1EBB", "U+1EBC",
      "U+1EBD", "U+1EBE", "U+1EBF", "U+1EC0", "U+1EC1", "U+1EC2", "U+1EC3",
      "U+1EC4", "U+1EC5", "U+1EC6", "U+1EC7", "U+1EC8", "U+1EC9", "U+1ECA",
      "U+1ECB", "U+1ECC", "U+1ECD", "U+1ECE", "U+1ECF", "U+1ED0", "U+1ED1",
      "U+1ED2", "U+1ED3", "U+1ED4", "U+1ED5", "U+1ED6", "U+1ED7", "U+1ED8",
      "U+1ED9", "U+1EDA", "U+1EDB", "U+1EDC", "U+1EDD", "U+1EDE", "U+1EDF",
      "U+1EE0", "U+1EE1", "U+1EE2", "U+1EE3", "U+1EE4", "U+1EE5", "U+1EE6",
      "U+1EE7", "U+1EE8", "U+1EE9", "U+1EEA", "U+1EEB", "U+1EEC", "U+1EED",
      "U+1EEE", "U+1EEF", "U+1EF0", "U+1EF1", "U+1EF2", "U+1EF3", "U+1EF4",
      "U+1EF5", "U+1EF6", "U+1EF7", "U+1EF8", "U+1EF9", "U+1EFA", "U+1EFB",
      "U+1EFC", "U+1EFD", "U+1EFE", "U+1EFF", "U+1F00", "U+1F01", "U+1F02",
      "U+1F03", "U+1F04", "U+1F05", "U+1F06", "U+1F07", "U+1F08", "U+1F09",
      "U+1F0A", "U+1F0B", "U+1F0C", "U+1F0D", "U+1F0E", "U+1F0F", "U+1F10",
      "U+1F11", "U+1F12", "U+1F13", "U+1F14", "U+1F15", "U+1F18", "U+1F19",
      "U+1F1A", "U+1F1B", "U+1F1C", "U+1F1D", "U+1F20", "U+1F21", "U+1F22",
      "U+1F23", "U+1F24", "U+1F25", "U+1F26", "U+1F27", "U+1F28", "U+1F29",
      "U+1F2A", "U+1F2B", "U+1F2C", "U+1F2D", "U+1F2E", "U+1F2F", "U+1F30",
      "U+1F31", "U+1F32", "U+1F33", "U+1F34", "U+1F35", "U+1F36", "U+1F37",
      "U+1F38", "U+1F39", "U+1F3A", "U+1F3B", "U+1F3C", "U+1F3D", "U+1F3E",
      "U+1F3F", "U+1F40", "U+1F41", "U+1F42", "U+1F43", "U+1F44", "U+1F45",
      "U+1F48", "U+1F49", "U+1F4A", "U+1F4B", "U+1F4C", "U+1F4D", "U+1F50",
      "U+1F51", "U+1F52", "U+1F53", "U+1F54", "U+1F55", "U+1F56", "U+1F57",
      "U+1F59", "U+1F5B", "U+1F5D", "U+1F5F", "U+1F60", "U+1F61", "U+1F62",
      "U+1F63", "U+1F64", "U+1F65", "U+1F66", "U+1F67", "U+1F68", "U+1F69",
      "U+1F6A", "U+1F6B", "U+1F6C", "U+1F6D", "U+1F6E", "U+1F6F", "U+1F70",
      "U+1F71", "U+1F72", "U+1F73", "U+1F74", "U+1F75", "U+1F76", "U+1F77",
      "U+1F78", "U+1F79", "U+1F7A", "U+1F7B", "U+1F7C", "U+1F7D", "U+1F80",
      "U+1F81", "U+1F82", "U+1F83", "U+1F84", "U+1F85", "U+1F86", "U+1F87",
      "U+1F88", "U+1F89", "U+1F8A", "U+1F8B", "U+1F8C", "U+1F8D", "U+1F8E",
      "U+1F8F", "U+1F90", "U+1F91", "U+1F92", "U+1F93", "U+1F94", "U+1F95",
      "U+1F96", "U+1F97", "U+1F98", "U+1F99", "U+1F9A", "U+1F9B", "U+1F9C",
      "U+1F9D", "U+1F9E", "U+1F9F", "U+1FA0", "U+1FA1", "U+1FA2", "U+1FA3",
      "U+1FA4", "U+1FA5", "U+1FA6", "U+1FA7", "U+1FA8", "U+1FA9", "U+1FAA",
      "U+1FAB", "U+1FAC", "U+1FAD", "U+1FAE", "U+1FAF", "U+1FB0", "U+1FB1",
      "U+1FB2", "U+1FB3", "U+1FB4", "U+1FB6", "U+1FB7", "U+1FB8", "U+1FB9",
      "U+1FBA", "U+1FBB", "U+1FBC", "U+1FBE", "U+1FC2", "U+1FC3", "U+1FC4",
      "U+1FC6", "U+1FC7", "U+1FC8", "U+1FC9", "U+1FCA", "U+1FCB", "U+1FCC",
      "U+1FD0", "U+1FD1", "U+1FD2", "U+1FD3", "U+1FD6", "U+1FD7", "U+1FD8",
      "U+1FD9", "U+1FDA", "U+1FDB", "U+1FE0", "U+1FE1", "U+1FE2", "U+1FE3",
      "U+1FE4", "U+1FE5", "U+1FE6", "U+1FE7", "U+1FE8", "U+1FE9", "U+1FEA",
      "U+1FEB", "U+1FEC", "U+1FF2", "U+1FF3", "U+1FF4", "U+1FF6", "U+1FF7",
      "U+1FF8", "U+1FF9", "U+1FFA", "U+1FFB", "U+1FFC", "U+2102", "U+2107",
      "U+210A", "U+210B", "U+210C", "U+210D", "U+210E", "U+210F", "U+2110",
      "U+2111", "U+2112", "U+2113", "U+2115", "U+2119", "U+211A", "U+211B",
      "U+211C", "U+211D", "U+2124", "U+2126", "U+2128", "U+212A", "U+212B",
      "U+212C", "U+212D", "U+212F", "U+2130", "U+2131", "U+2132", "U+2133",
      "U+2134", "U+2139", "U+213C", "U+213D", "U+213E", "U+213F", "U+2145",
      "U+2146", "U+2147", "U+2148", "U+2149", "U+214E", "U+2160", "U+2161",
      "U+2162", "U+2163", "U+2164", "U+2165", "U+2166", "U+2167", "U+2168",
      "U+2169", "U+216A", "U+216B", "U+216C", "U+216D", "U+216E", "U+216F",
      "U+2170", "U+2171", "U+2172", "U+2173", "U+2174", "U+2175", "U+2176",
      "U+2177", "U+2178", "U+2179", "U+217A", "U+217B", "U+217C", "U+217D",
      "U+217E", "U+217F", "U+2183", "U+2184", "U+24B6", "U+24B7", "U+24B8",
      "U+24B9", "U+24BA", "U+24BB", "U+24BC", "U+24BD", "U+24BE", "U+24BF",
      "U+24C0", "U+24C1", "U+24C2", "U+24C3", "U+24C4", "U+24C5", "U+24C6",
      "U+24C7", "U+24C8", "U+24C9", "U+24CA", "U+24CB", "U+24CC", "U+24CD",
      "U+24CE", "U+24CF", "U+24D0", "U+24D1", "U+24D2", "U+24D3", "U+24D4",
      "U+24D5", "U+24D6", "U+24D7", "U+24D8", "U+24D9", "U+24DA", "U+24DB",
      "U+24DC", "U+24DD", "U+24DE", "U+24DF", "U+24E0", "U+24E1", "U+24E2",
      "U+24E3", "U+24E4", "U+24E5", "U+24E6", "U+24E7", "U+24E8", "U+24E9",
      "U+2C00", "U+2C01", "U+2C02", "U+2C03", "U+2C04", "U+2C05", "U+2C06",
      "U+2C07", "U+2C08", "U+2C09", "U+2C0A", "U+2C0B", "U+2C0C", "U+2C0D",
      "U+2C0E", "U+2C0F", "U+2C10", "U+2C11", "U+2C12", "U+2C13", "U+2C14",
      "U+2C15", "U+2C16", "U+2C17", "U+2C18", "U+2C19", "U+2C1A", "U+2C1B",
      "U+2C1C", "U+2C1D", "U+2C1E", "U+2C1F", "U+2C20", "U+2C21", "U+2C22",
      "U+2C23", "U+2C24", "U+2C25", "U+2C26", "U+2C27", "U+2C28", "U+2C29",
      "U+2C2A", "U+2C2B", "U+2C2C", "U+2C2D", "U+2C2E", "U+2C2F", "U+2C30",
      "U+2C31", "U+2C32", "U+2C33", "U+2C34", "U+2C35", "U+2C36", "U+2C37",
      "U+2C38", "U+2C39", "U+2C3A", "U+2C3B", "U+2C3C", "U+2C3D", "U+2C3E",
      "U+2C3F", "U+2C40", "U+2C41", "U+2C42", "U+2C43", "U+2C44", "U+2C45",
      "U+2C46", "U+2C47", "U+2C48", "U+2C49", "U+2C4A", "U+2C4B", "U+2C4C",
      "U+2C4D", "U+2C4E", "U+2C4F", "U+2C50", "U+2C51", "U+2C52", "U+2C53",
      "U+2C54", "U+2C55", "U+2C56", "U+2C57", "U+2C58", "U+2C59", "U+2C5A",
      "U+2C5B", "U+2C5C", "U+2C5D", "U+2C5E", "U+2C5F", "U+2C60", "U+2C61",
      "U+2C62", "U+2C63", "U+2C64", "U+2C65", "U+2C66", "U+2C67", "U+2C68",
      "U+2C69", "U+2C6A", "U+2C6B", "U+2C6C", "U+2C6D", "U+2C6E", "U+2C6F",
      "U+2C70", "U+2C71", "U+2C72", "U+2C73", "U+2C74", "U+2C75", "U+2C76",
      "U+2C77", "U+2C78", "U+2C79", "U+2C7A", "U+2C7B", "U+2C7E", "U+2C7F",
      "U+2C80", "U+2C81", "U+2C82", "U+2C83", "U+2C84", "U+2C85", "U+2C86",
      "U+2C87", "U+2C88", "U+2C89", "U+2C8A", "U+2C8B", "U+2C8C", "U+2C8D",
      "U+2C8E", "U+2C8F", "U+2C90", "U+2C91", "U+2C92", "U+2C93", "U+2C94",
      "U+2C95", "U+2C96", "U+2C97", "U+2C98", "U+2C99", "U+2C9A", "U+2C9B",
      "U+2C9C", "U+2C9D", "U+2C9E", "U+2C9F", "U+2CA0", "U+2CA1", "U+2CA2",
      "U+2CA3", "U+2CA4", "U+2CA5", "U+2CA6", "U+2CA7", "U+2CA8", "U+2CA9",
      "U+2CAA", "U+2CAB", "U+2CAC", "U+2CAD", "U+2CAE", "U+2CAF", "U+2CB0",
      "U+2CB1", "U+2CB2", "U+2CB3", "U+2CB4", "U+2CB5", "U+2CB6", "U+2CB7",
      "U+2CB8", "U+2CB9", "U+2CBA", "U+2CBB", "U+2CBC", "U+2CBD", "U+2CBE",
      "U+2CBF", "U+2CC0", "U+2CC1", "U+2CC2", "U+2CC3", "U+2CC4", "U+2CC5",
      "U+2CC6", "U+2CC7", "U+2CC8", "U+2CC9", "U+2CCA", "U+2CCB", "U+2CCC",
      "U+2CCD", "U+2CCE", "U+2CCF", "U+2CD0", "U+2CD1", "U+2CD2", "U+2CD3",
      "U+2CD4", "U+2CD5", "U+2CD6", "U+2CD7", "U+2CD8", "U+2CD9", "U+2CDA",
      "U+2CDB", "U+2CDC", "U+2CDD", "U+2CDE", "U+2CDF", "U+2CE0", "U+2CE1",
      "U+2CE2", "U+2CE3", "U+2CE4", "U+2CEB", "U+2CEC", "U+2CED", "U+2CEE",
      "U+2CF2", "U+2CF3", "U+2D00", "U+2D01", "U+2D02", "U+2D03", "U+2D04",
      "U+2D05", "U+2D06", "U+2D07", "U+2D08", "U+2D09", "U+2D0A", "U+2D0B",
      "U+2D0C", "U+2D0D", "U+2D0E", "U+2D0F", "U+2D10", "U+2D11", "U+2D12",
      "U+2D13", "U+2D14", "U+2D15", "U+2D16", "U+2D17", "U+2D18", "U+2D19",
      "U+2D1A", "U+2D1B", "U+2D1C", "U+2D1D", "U+2D1E", "U+2D1F", "U+2D20",
      "U+2D21", "U+2D22", "U+2D23", "U+2D24", "U+2D25", "U+2D27", "U+2D2D",
      "U+A640", "U+A641", "U+A642", "U+A643", "U+A644", "U+A645", "U+A646",
      "U+A647", "U+A648", "U+A649", "U+A64A", "U+A64B", "U+A64C", "U+A64D",
      "U+A64E", "U+A64F", "U+A650", "U+A651", "U+A652", "U+A653", "U+A654",
      "U+A655", "U+A656", "U+A657", "U+A658", "U+A659", "U+A65A", "U+A65B",
      "U+A65C", "U+A65D", "U+A65E", "U+A65F", "U+A660", "U+A661", "U+A662",
      "U+A663", "U+A664", "U+A665", "U+A666", "U+A667", "U+A668", "U+A669",
      "U+A66A", "U+A66B", "U+A66C", "U+A66D", "U+A680", "U+A681", "U+A682",
      "U+A683", "U+A684", "U+A685", "U+A686", "U+A687", "U+A688", "U+A689",
      "U+A68A", "U+A68B", "U+A68C", "U+A68D", "U+A68E", "U+A68F", "U+A690",
      "U+A691", "U+A692", "U+A693", "U+A694", "U+A695", "U+A696", "U+A697",
      "U+A698", "U+A699", "U+A69A", "U+A69B", "U+A722", "U+A723", "U+A724",
      "U+A725", "U+A726", "U+A727", "U+A728", "U+A729", "U+A72A", "U+A72B",
      "U+A72C", "U+A72D", "U+A72E", "U+A72F", "U+A730", "U+A731", "U+A732",
      "U+A733", "U+A734", "U+A735", "U+A736", "U+A737", "U+A738", "U+A739",
      "U+A73A", "U+A73B", "U+A73C", "U+A73D", "U+A73E", "U+A73F", "U+A740",
      "U+A741", "U+A742", "U+A743", "U+A744", "U+A745", "U+A746", "U+A747",
      "U+A748", "U+A749", "U+A74A", "U+A74B", "U+A74C", "U+A74D", "U+A74E",
      "U+A74F", "U+A750", "U+A751", "U+A752", "U+A753", "U+A754", "U+A755",
      "U+A756", "U+A757", "U+A758", "U+A759", "U+A75A", "U+A75B", "U+A75C",
      "U+A75D", "U+A75E", "U+A75F", "U+A760", "U+A761", "U+A762", "U+A763",
      "U+A764", "U+A765", "U+A766", "U+A767", "U+A768", "U+A769", "U+A76A",
      "U+A76B", "U+A76C", "U+A76D", "U+A76E", "U+A76F", "U+A771", "U+A772",
      "U+A773", "U+A774", "U+A775", "U+A776", "U+A777", "U+A778", "U+A779",
      "U+A77A", "U+A77B", "U+A77C", "U+A77D", "U+A77E", "U+A77F", "U+A780",
      "U+A781", "U+A782", "U+A783", "U+A784", "U+A785", "U+A786", "U+A787",
      "U+A78B", "U+A78C", "U+A78D", "U+A78E", "U+A790", "U+A791", "U+A792",
      "U+A793", "U+A794", "U+A795", "U+A796", "U+A797", "U+A798", "U+A799",
      "U+A79A", "U+A79B", "U+A79C", "U+A79D", "U+A79E", "U+A79F", "U+A7A0",
      "U+A7A1", "U+A7A2", "U+A7A3", "U+A7A4", "U+A7A5", "U+A7A6", "U+A7A7",
      "U+A7A8", "U+A7A9", "U+A7AA", "U+A7AB", "U+A7AC", "U+A7AD", "U+A7AE",
      "U+A7AF", "U+A7B0", "U+A7B1", "U+A7B2", "U+A7B3", "U+A7B4", "U+A7B5",
      "U+A7B6", "U+A7B7", "U+A7B8", "U+A7B9", "U+A7BA", "U+A7BB", "U+A7BC",
      "U+A7BD", "U+A7BE", "U+A7BF", "U+A7C0", "U+A7C1", "U+A7C2", "U+A7C3",
      "U+A7C4", "U+A7C5", "U+A7C6", "U+A7C7", "U+A7C8", "U+A7C9", "U+A7CA",
      "U+A7CB", "U+A7CC", "U+A7CD", "U+A7CE", "U+A7CF", "U+A7D0", "U+A7D1",
      "U+A7D2", "U+A7D3", "U+A7D4", "U+A7D5", "U+A7D6", "U+A7D7", "U+A7D8",
      "U+A7D9", "U+A7DA", "U+A7DB", "U+A7DC", "U+A7F5", "U+A7F6", "U+A7FA",
      "U+AB30", "U+AB31", "U+AB32", "U+AB33", "U+AB34", "U+AB35", "U+AB36",
      "U+AB37", "U+AB38", "U+AB39", "U+AB3A", "U+AB3B", "U+AB3C", "U+AB3D",
      "U+AB3E", "U+AB3F", "U+AB40", "U+AB41", "U+AB42", "U+AB43", "U+AB44",
      "U+AB45", "U+AB46", "U+AB47", "U+AB48", "U+AB49", "U+AB4A", "U+AB4B",
      "U+AB4C", "U+AB4D", "U+AB4E", "U+AB4F", "U+AB50", "U+AB51", "U+AB52",
      "U+AB53", "U+AB54", "U+AB55", "U+AB56", "U+AB57", "U+AB58", "U+AB59",
      "U+AB5A", "U+AB60", "U+AB61", "U+AB62", "U+AB63", "U+AB64", "U+AB65",
      "U+AB66", "U+AB67", "U+AB68", "U+AB70", "U+AB71", "U+AB72", "U+AB73",
      "U+AB74", "U+AB75", "U+AB76", "U+AB77", "U+AB78", "U+AB79", "U+AB7A",
      "U+AB7B", "U+AB7C", "U+AB7D", "U+AB7E", "U+AB7F", "U+AB80", "U+AB81",
      "U+AB82", "U+AB83", "U+AB84", "U+AB85", "U+AB86", "U+AB87", "U+AB88",
      "U+AB89", "U+AB8A", "U+AB8B", "U+AB8C", "U+AB8D", "U+AB8E", "U+AB8F",
      "U+AB90", "U+AB91", "U+AB92", "U+AB93", "U+AB94", "U+AB95", "U+AB96",
      "U+AB97", "U+AB98", "U+AB99", "U+AB9A", "U+AB9B", "U+AB9C", "U+AB9D",
      "U+AB9E", "U+AB9F", "U+ABA0", "U+ABA1", "U+ABA2", "U+ABA3", "U+ABA4",
      "U+ABA5", "U+ABA6", "U+ABA7", "U+ABA8", "U+ABA9", "U+ABAA", "U+ABAB",
      "U+ABAC", "U+ABAD", "U+ABAE", "U+ABAF", "U+ABB0", "U+ABB1", "U+ABB2",
      "U+ABB3", "U+ABB4", "U+ABB5", "U+ABB6", "U+ABB7", "U+ABB8", "U+ABB9",
      "U+ABBA", "U+ABBB", "U+ABBC", "U+ABBD", "U+ABBE", "U+ABBF", "U+FB00",
      "U+FB01", "U+FB02", "U+FB03", "U+FB04", "U+FB05", "U+FB06", "U+FB13",
      "U+FB14", "U+FB15", "U+FB16", "U+FB17", "U+FF21", "U+FF22", "U+FF23",
      "U+FF24", "U+FF25", "U+FF26", "U+FF27", "U+FF28", "U+FF29", "U+FF2A",
      "U+FF2B", "U+FF2C", "U+FF2D", "U+FF2E", "U+FF2F", "U+FF30", "U+FF31",
      "U+FF32", "U+FF33", "U+FF34", "U+FF35", "U+FF36", "U+FF37", "U+FF38",
      "U+FF39", "U+FF3A", "U+FF41", "U+FF42", "U+FF43", "U+FF44", "U+FF45",
      "U+FF46", "U+FF47", "U+FF48", "U+FF49", "U+FF4A", "U+FF4B", "U+FF4C",
      "U+FF4D", "U+FF4E", "U+FF4F", "U+FF50", "U+FF51", "U+FF52", "U+FF53",
      "U+FF54", "U+FF55", "U+FF56", "U+FF57", "U+FF58", "U+FF59", "U+FF5A" }

CasedPairs ==
    ({"U+D801"} \X
        { "U+DC00", "U+DC01", "U+DC02", "U+DC03", "U+DC04", "U+DC05",
          "U+DC06", "U+DC07", "U+DC08", "U+DC09", "U+DC0A", "U+DC0B",
          "U+DC0C", "U+DC0D", "U+DC0E", "U+DC0F", "U+DC10", "U+DC11",
          "U+DC12", "U+DC13", "U+DC14", "U+DC15", "U+DC16", "U+DC17",
          "U+DC18", "U+DC19", "U+DC1A", "U+DC1B", "U+DC1C", "U+DC1D",
          "U+DC1E", "U+DC1F", "U+DC20", "U+DC21", "U+DC22", "U+DC23",
          "U+DC24", "U+DC25", "U+DC26", "U+DC27", "U+DC28", "U+DC29",
          "U+DC2A", "U+DC2B", "U+DC2C", "U+DC2D", "U+DC2E", "U+DC2F",
          "U+DC30", "U+DC31", "U+DC32", "U+DC33", "U+DC34", "U+DC35",
          "U+DC36", "U+DC37", "U+DC38", "U+DC39", "U+DC3A", "U+DC3B",
          "U+DC3C", "U+DC3D", "U+DC3E", "U+DC3F", "U+DC40", "U+DC41",
          "U+DC42", "U+DC43", "U+DC44", "U+DC45", "U+DC46", "U+DC47",
          "U+DC48", "U+DC49", "U+DC4A", "U+DC4B", "U+DC4C", "U+DC4D",
          "U+DC4E", "U+DC4F", "U+DCB0", "U+DCB1", "U+DCB2", "U+DCB3",
          "U+DCB4", "U+DCB5", "U+DCB6", "U+DCB7", "U+DCB8", "U+DCB9",
          "U+DCBA", "U+DCBB", "U+DCBC", "U+DCBD", "U+DCBE", "U+DCBF",
          "U+DCC0", "U+DCC1", "U+DCC2", "U+DCC3", "U+DCC4", "U+DCC5",
          "U+DCC6", "U+DCC7", "U+DCC8", "U+DCC9", "U+DCCA", "U+DCCB",
          "U+DCCC", "U+DCCD", "U+DCCE", "U+DCCF", "U+DCD0", "U+DCD1",
          "U+DCD2", "U+DCD3", "U+DCD8", "U+DCD9", "U+DCDA", "U+DCDB",
          "U+DCDC", "U+DCDD", "U+DCDE", "U+DCDF", "U+DCE0", "U+DCE1",
          "U+DCE2", "U+DCE3", "U+DCE4", "U+DCE5", "U+DCE6", "U+DCE7",
          "U+DCE8", "U+DCE9", "U+DCEA", "U+DCEB", "U+DCEC", "U+DCED",
          "U+DCEE", "U+DCEF", "U+DCF0", "U+DCF1", "U+DCF2", "U+DCF3",
          "U+DCF4", "U+DCF5", "U+DCF6", "U+DCF7", "U+DCF8", "U+DCF9",
          "U+DCFA", "U+DCFB", "U+DD70", "U+DD71", "U+DD72", "U+DD73",
          "U+DD74", "U+DD75", "U+DD76", "U+DD77", "U+DD78", "U+DD79",
          "U+DD7A", "U+DD7C", "U+DD7D", "U+DD7E", "U+DD7F", "U+DD80",
          "U+DD81", "U+DD82", "U+DD83", "U+DD84", "U+DD85", "U+DD86",
          "U+DD87", "U+DD88", "U+DD89", "U+DD8A", "U+DD8C", "U+DD8D",
          "U+DD8E", "U+DD8F", "U+DD90", "U+DD91", "U+DD92", "U+DD94",
          "U+DD95", "U+DD97", "U+DD98", "U+DD99", "U+DD9A", "U+DD9B",
          "U+DD9C", "U+DD9D", "U+DD9E", "U+DD9F", "U+DDA0", "U+DDA1",
          "U+DDA3", "U+DDA4", "U+DDA5", "U+DDA6", "U+DDA7", "U+DDA8",
          "U+DDA9", "U+DDAA", "U+DDAB", "U+DDAC", "U+DDAD", "U+DDAE",
          "U+DDAF", "U+DDB0", "U+DDB1", "U+DDB3", "U+DDB4", "U+DDB5",
          "U+DDB6", "U+DDB7", "U+DDB8", "U+DDB9", "U+DDBB", "U+DDBC" })
    \cup ({"U+D803"} \X
        { "U+DC80", "U+DC81", "U+DC82", "U+DC83", "U+DC84", "U+DC85",
          "U+DC86", "U+DC87", "U+DC88", "U+DC89", "U+DC8A", "U+DC8B",
          "U+DC8C", "U+DC8D", "U+DC8E", "U+DC8F", "U+DC90", "U+DC91",
          "U+DC92", "U+DC93", "U+DC94", "U+DC95", "U+DC96", "U+DC97",
          "U+DC98", "U+DC99", "U+DC9A", "U+DC9B", "U+DC9C", "U+DC9D",
          "U+DC9E", "U+DC9F", "U+DCA0", "U+DCA1", "U+DCA2", "U+DCA3",
          "U+DCA4", "U+DCA5", "U+DCA6", "U+DCA7", "U+DCA8", "U+DCA9",
          "U+DCAA", "U+DCAB", "U+DCAC", "U+DCAD", "U+DCAE", "U+DCAF",
          "U+DCB0", "U+DCB1", "U+DCB2", "U+DCC0", "U+DCC1", "U+DCC2",
          "U+DCC3", "U+DCC4", "U+DCC5", "U+DCC6", "U+DCC7", "U+DCC8",
          "U+DCC9", "U+DCCA", "U+DCCB", "U+DCCC", "U+DCCD", "U+DCCE",
          "U+DCCF", "U+DCD0", "U+DCD1", "U+DCD2", "U+DCD3", "U+DCD4",
          "U+DCD5", "U+DCD6", "U+DCD7", "U+DCD8", "U+DCD9", "U+DCDA",
          "U+DCDB", "U+DCDC", "U+DCDD", "U+DCDE", "U+DCDF", "U+DCE0",
          "U+DCE1", "U+DCE2", "U+DCE3", "U+DCE4", "U+DCE5", "U+DCE6",
          "U+DCE7", "U+DCE8", "U+DCE9", "U+DCEA", "U+DCEB", "U+DCEC",
          "U+DCED", "U+DCEE", "U+DCEF", "U+DCF0", "U+DCF1", "U+DCF2",
          "U+DD50", "U+DD51", "U+DD52", "U+DD53", "U+DD54", "U+DD55",
          "U+DD56", "U+DD57", "U+DD58", "U+DD59", "U+DD5A", "U+DD5B",
          "U+DD5C", "U+DD5D", "U+DD5E", "U+DD5F", "U+DD60", "U+DD61",
          "U+DD62", "U+DD63", "U+DD64", "U+DD65", "U+DD70", "U+DD71",
          "U+DD72", "U+DD73", "U+DD74", "U+DD75", "U+DD76", "U+DD77",
          "U+DD78", "U+DD79", "U+DD7A", "U+DD7B", "U+DD7C", "U+DD7D",
          "U+DD7E", "U+DD7F", "U+DD80", "U+DD81", "U+DD82", "U+DD83",
          "U+DD84", "U+DD85" })
    \cup ({"U+D806"} \X
        { "U+DCA0", "U+DCA1", "U+DCA2", "U+DCA3", "U+DCA4", "U+DCA5",
          "U+DCA6", "U+DCA7", "U+DCA8", "U+DCA9", "U+DCAA", "U+DCAB",
          "U+DCAC", "U+DCAD", "U+DCAE", "U+DCAF", "U+DCB0", "U+DCB1",
          "U+DCB2", "U+DCB3", "U+DCB4", "U+DCB5", "U+DCB6", "U+DCB7",
          "U+DCB8", "U+DCB9", "U+DCBA", "U+DCBB", "U+DCBC", "U+DCBD",
          "U+DCBE", "U+DCBF", "U+DCC0", "U+DCC1", "U+DCC2", "U+DCC3",
          "U+DCC4", "U+DCC5", "U+DCC6", "U+DCC7", "U+DCC8", "U+DCC9",
          "U+DCCA", "U+DCCB", "U+DCCC", "U+DCCD", "U+DCCE", "U+DCCF",
          "U+DCD0", "U+DCD1", "U+DCD2", "U+DCD3", "U+DCD4", "U+DCD5",
          "U+DCD6", "U+DCD7", "U+DCD8", "U+DCD9", "U+DCDA", "U+DCDB",
          "U+DCDC", "U+DCDD", "U+DCDE", "U+DCDF" })
    \cup ({"U+D81B"} \X
        { "U+DE40", "U+DE41", "U+DE42", "U+DE43", "U+DE44", "U+DE45",
          "U+DE46", "U+DE47", "U+DE48", "U+DE49", "U+DE4A", "U+DE4B",
          "U+DE4C", "U+DE4D", "U+DE4E", "U+DE4F", "U+DE50", "U+DE51",
          "U+DE52", "U+DE53", "U+DE54", "U+DE55", "U+DE56", "U+DE57",
          "U+DE58", "U+DE59", "U+DE5A", "U+DE5B", "U+DE5C", "U+DE5D",
          "U+DE5E", "U+DE5F", "U+DE60", "U+DE61", "U+DE62", "U+DE63",
          "U+DE64", "U+DE65", "U+DE66", "U+DE67", "U+DE68", "U+DE69",
          "U+DE6A", "U+DE6B", "U+DE6C", "U+DE6D", "U+DE6E", "U+DE6F",
          "U+DE70", "U+DE71", "U+DE72", "U+DE73", "U+DE74", "U+DE75",
          "U+DE76", "U+DE77", "U+DE78", "U+DE79", "U+DE7A", "U+DE7B",
          "U+DE7C", "U+DE7D", "U+DE7E", "U+DE7F", "U+DEA0", "U+DEA1",
          "U+DEA2", "U+DEA3", "U+DEA4", "U+DEA5", "U+DEA6", "U+DEA7",
          "U+DEA8", "U+DEA9", "U+DEAA", "U+DEAB", "U+DEAC", "U+DEAD",
          "U+DEAE", "U+DEAF", "U+DEB0", "U+DEB1", "U+DEB2", "U+DEB3",
          "U+DEB4", "U+DEB5", "U+DEB6", "U+DEB7", "U+DEB8", "U+DEBB",
          "U+DEBC", "U+DEBD", "U+DEBE", "U+DEBF", "U+DEC0", "U+DEC1",
          "U+DEC2", "U+DEC3", "U+DEC4", "U+DEC5", "U+DEC6", "U+DEC7",
          "U+DEC8", "U+DEC9", "U+DECA", "U+DECB", "U+DECC", "U+DECD",
          "U+DECE", "U+DECF", "U+DED0", "U+DED1", "U+DED2", "U+DED3" })
    \cup ({"U+D835"} \X
        { "U+DC00", "U+DC01", "U+DC02", "U+DC03", "U+DC04", "U+DC05",
          "U+DC06", "U+DC07", "U+DC08", "U+DC09", "U+DC0A", "U+DC0B",
          "U+DC0C", "U+DC0D", "U+DC0E", "U+DC0F", "U+DC10", "U+DC11",
          "U+DC12", "U+DC13", "U+DC14", "U+DC15", "U+DC16", "U+DC17",
          "U+DC18", "U+DC19", "U+DC1A", "U+DC1B", "U+DC1C", "U+DC1D",
          "U+DC1E", "U+DC1F", "U+DC20", "U+DC21", "U+DC22", "U+DC23",
          "U+DC24", "U+DC25", "U+DC26", "U+DC27", "U+DC28", "U+DC29",
          "U+DC2A", "U+DC2B", "U+DC2C", "U+DC2D", "U+DC2E", "U+DC2F",
          "U+DC30", "U+DC31", "U+DC32", "U+DC33", "U+DC34", "U+DC35",
          "U+DC36", "U+DC37", "U+DC38", "U+DC39", "U+DC3A", "U+DC3B",
          "U+DC3C", "U+DC3D", "U+DC3E", "U+DC3F", "U+DC40", "U+DC41",
          "U+DC42", "U+DC43", "U+DC44", "U+DC45", "U+DC46", "U+DC47",
          "U+DC48", "U+DC49", "U+DC4A", "U+DC4B", "U+DC4C", "U+DC4D",
          "U+DC4E", "U+DC4F", "U+DC50", "U+DC51", "U+DC52", "U+DC53",
          "U+DC54", "U+DC56", "U+DC57", "U+DC58", "U+DC59", "U+DC5A",
          "U+DC5B", "U+DC5C", "U+DC5D", "U+DC5E", "U+DC5F", "U+DC60",
          "U+DC61", "U+DC62", "U+DC63", "U+DC64", "U+DC65", "U+DC66",
          "U+DC67", "U+DC68", "U+DC69", "U+DC6A", "U+DC6B", "U+DC6C",
          "U+DC6D", "U+DC6E", "U+DC6F", "U+DC70", "U+DC71", "U+DC72",
          "U+DC73", "U+DC74", "U+DC75", "U+DC76", "U+DC77", "U+DC78",
          "U+DC79", "U+DC7A", "U+DC7B", "U+DC7C", "U+DC7D", "U+DC7E",
          "U+DC7F", "U+DC80", "U+DC81", "U+DC82", "U+DC83", "U+DC84",
          "U+DC85", "U+DC86", "U+DC87", "U+DC88", "U+DC89", "U+DC8A",
          "U+DC8B", "U+DC8C", "U+DC8D", "U+DC8E", "U+DC8F", "U+DC90",
          "U+DC91", "U+DC92", "U+DC93", "U+DC94", "U+DC95", "U+DC96",
          "U+DC97", "U+DC98", "U+DC99", "U+DC9A", "U+DC9B", "U+DC9C",
          "U+DC9E", "U+DC9F", "U+DCA2", "U+DCA5", "U+DCA6", "U+DCA9",
          "U+DCAA", "U+DCAB", "U+DCAC", "U+DCAE", "U+DCAF", "U+DCB0",
          "U+DCB1", "U+DCB2", "U+DCB3", "U+DCB4", "U+DCB5", "U+DCB6",
          "U+DCB7", "U+DCB8", "U+DCB9", "U+DCBB", "U+DCBD", "U+DCBE",
          "U+DCBF", "U+DCC0", "U+DCC1", "U+DCC2", "U+DCC3", "U+DCC5",
          "U+DCC6", "U+DCC7", "U+DCC8", "U+DCC9", "U+DCCA", "U+DCCB",
          "U+DCCC", "U+DCCD", "U+DCCE", "U+DCCF", "U+DCD0", "U+DCD1",
          "U+DCD2", "U+DCD3", "U+DCD4", "U+DCD5", "U+DCD6", "U+DCD7",
          "U+DCD8", "U+DCD9", "U+DCDA", "U+DCDB", "U+DCDC", "U+DCDD",
          "U+DCDE", "U+DCDF", "U+DCE0", "U+DCE1", "U+DCE2", "U+DCE3",
          "U+DCE4", "U+DCE5", "U+DCE6", "U+DCE7", "U+DCE8", "U+DCE9",
          "U+DCEA", "U+DCEB", "U+DCEC", "U+DCED", "U+DCEE", "U+DCEF",
          "U+DCF0", "U+DCF1", "U+DCF2", "U+DCF3", "U+DCF4", "U+DCF5",
          "U+DCF6", "U+DCF7", "U+DCF8", "U+DCF9", "U+DCFA", "U+DCFB",
          "U+DCFC", "U+DCFD", "U+DCFE", "U+DCFF", "U+DD00", "U+DD01",
          "U+DD02", "U+DD03", "U+DD04", "U+DD05", "U+DD07", "U+DD08",
          "U+DD09", "U+DD0A", "U+DD0D", "U+DD0E", "U+DD0F", "U+DD10",
          "U+DD11", "U+DD12", "U+DD13", "U+DD14", "U+DD16", "U+DD17",
          "U+DD18", "U+DD19", "U+DD1A", "U+DD1B", "U+DD1C", "U+DD1E",
          "U+DD1F", "U+DD20", "U+DD21", "U+DD22", "U+DD23", "U+DD24",
          "U+DD25", "U+DD26", "U+DD27", "U+DD28", "U+DD29", "U+DD2A",
          "U+DD2B", "U+DD2C", "U+DD2D", "U+DD2E", "U+DD2F", "U+DD30",
          "U+DD31", "U+DD32", "U+DD33", "U+DD34", "U+DD35", "U+DD36",
          "U+DD37", "U+DD38", "U+DD39", "U+DD3B", "U+DD3C", "U+DD3D",
          "U+DD3E", "U+DD40", "U+DD41", "U+DD42", "U+DD43", "U+DD44",
          "U+DD46", "U+DD4A", "U+DD4B", "U+DD4C", "U+DD4D", "U+DD4E",
          "U+DD4F", "U+DD50", "U+DD52", "U+DD53", "U+DD54", "U+DD55",
          "U+DD56", "U+DD57", "U+DD58", "U+DD59", "U+DD5A", "U+DD5B",
          "U+DD5C", "U+DD5D", "U+DD5E", "U+DD5F", "U+DD60", "U+DD61",
          "U+DD62", "U+DD63", "U+DD64", "U+DD65", "U+DD66", "U+DD67",
          "U+DD68", "U+DD69", "U+DD6A", "U+DD6B", "U+DD6C", "U+DD6D",
          "U+DD6E", "U+DD6F", "U+DD70", "U+DD71", "U+DD72", "U+DD73",
          "U+DD74", "U+DD75", "U+DD76", "U+DD77", "U+DD78", "U+DD79",
          "U+DD7A", "U+DD7B", "U+DD7C", "U+DD7D", "U+DD7E", "U+DD7F",
          "U+DD80", "U+DD81", "U+DD82", "U+DD83", "U+DD84", "U+DD85",
          "U+DD86", "U+DD87", "U+DD88", "U+DD89", "U+DD8A", "U+DD8B",
          "U+DD8C", "U+DD8D", "U+DD8E", "U+DD8F", "U+DD90", "U+DD91",
          "U+DD92", "U+DD93", "U+DD94", "U+DD95", "U+DD96", "U+DD97",
          "U+DD98", "U+DD99", "U+DD9A", "U+DD9B", "U+DD9C", "U+DD9D",
          "U+DD9E", "U+DD9F", "U+DDA0", "U+DDA1", "U+DDA2", "U+DDA3",
          "U+DDA4", "U+DDA5", "U+DDA6", "U+DDA7", "U+DDA8", "U+DDA9",
          "U+DDAA", "U+DDAB", "U+DDAC", "U+DDAD", "U+DDAE", "U+DDAF",
          "U+DDB0", "U+DDB1", "U+DDB2", "U+DDB3", "U+DDB4", "U+DDB5",
          "U+DDB6", "U+DDB7", "U+DDB8", "U+DDB9", "U+DDBA", "U+DDBB",
          "U+DDBC", "U+DDBD", "U+DDBE", "U+DDBF", "U+DDC0", "U+DDC1",
          "U+DDC2", "U+DDC3", "U+DDC4", "U+DDC5", "U+DDC6", "U+DDC7",
          "U+DDC8", "U+DDC9", "U+DDCA", "U+DDCB", "U+DDCC", "U+DDCD",
          "U+DDCE", "U+DDCF", "U+DDD0", "U+DDD1", "U+DDD2", "U+DDD3",
          "U+DDD4", "U+DDD5", "U+DDD6", "U+DDD7", "U+DDD8", "U+DDD9",
          "U+DDDA", "U+DDDB", "U+DDDC", "U+DDDD", "U+DDDE", "U+DDDF",
          "U+DDE0", "U+DDE1", "U+DDE2", "U+DDE3", "U+DDE4", "U+DDE5",
          "U+DDE6", "U+DDE7", "U+DDE8", "U+DDE9", "U+DDEA", "U+DDEB",
          "U+DDEC", "U+DDED", "U+DDEE", "U+DDEF", "U+DDF0", "U+DDF1",
          "U+DDF2", "U+DDF3", "U+DDF4", "U+DDF5", "U+DDF6", "U+DDF7",
          "U+DDF8", "U+DDF9", "U+DDFA", "U+DDFB", "U+DDFC", "U+DDFD",
          "U+DDFE", "U+DDFF", "U+DE00", "U+DE01", "U+DE02", "U+DE03",
          "U+DE04", "U+DE05", "U+DE06", "U+DE07", "U+DE08", "U+DE09",
          "U+DE0A", "U+DE0B", "U+DE0C", "U+DE0D", "U+DE0E", "U+DE0F",
          "U+DE10", "U+DE11", "U+DE12", "U+DE13", "U+DE14", "U+DE15",
          "U+DE16", "U+DE17", "U+DE18", "U+DE19", "U+DE1A", "U+DE1B",
          "U+DE1C", "U+DE1D", "U+DE1E", "U+DE1F", "U+DE20", "U+DE21",
          "U+DE22", "U+DE23", "U+DE24", "U+DE25", "U+DE26", "U+DE27",
          "U+DE28", "U+DE29", "U+DE2A", "U+DE2B", "U+DE2C", "U+DE2D",
          "U+DE2E", "U+DE2F", "U+DE30", "U+DE31", "U+DE32", "U+DE33",
          "U+DE34", "U+DE35", "U+DE36", "U+DE37", "U+DE38", "U+DE39",
          "U+DE3A", "U+DE3B", "U+DE3C", "U+DE3D", "U+DE3E", "U+DE3F",
          "U+DE40", "U+DE41", "U+DE42", "U+DE43", "U+DE44", "U+DE45",
          "U+DE46", "U+DE47", "U+DE48", "U+DE49", "U+DE4A", "U+DE4B",
          "U+DE4C", "U+DE4D", "U+DE4E", "U+DE4F", "U+DE50", "U+DE51",
          "U+DE52", "U+DE53", "U+DE54", "U+DE55", "U+DE56", "U+DE57",
          "U+DE58", "U+DE59", "U+DE5A", "U+DE5B", "U+DE5C", "U+DE5D",
          "U+DE5E", "U+DE5F", "U+DE60", "U+DE61", "U+DE62", "U+DE63",
          "U+DE64", "U+DE65", "U+DE66", "U+DE67", "U+DE68", "U+DE69",
          "U+DE6A", "U+DE6B", "U+DE6C", "U+DE6D", "U+DE6E", "U+DE6F",
          "U+DE70", "U+DE71", "U+DE72", "U+DE73", "U+DE74", "U+DE75",
          "U+DE76", "U+DE77", "U+DE78", "U+DE79", "U+DE7A", "U+DE7B",
          "U+DE7C", "U+DE7D", "U+DE7E", "U+DE7F", "U+DE80", "U+DE81",
          "U+DE82", "U+DE83", "U+DE84", "U+DE85", "U+DE86", "U+DE87",
          "U+DE88", "U+DE89", "U+DE8A", "U+DE8B", "U+DE8C", "U+DE8D",
          "U+DE8E", "U+DE8F", "U+DE90", "U+DE91", "U+DE92", "U+DE93",
          "U+DE94", "U+DE95", "U+DE96", "U+DE97", "U+DE98", "U+DE99",
          "U+DE9A", "U+DE9B", "U+DE9C", "U+DE9D", "U+DE9E", "U+DE9F",
          "U+DEA0", "U+DEA1", "U+DEA2", "U+DEA3", "U+DEA4", "U+DEA5",
          "U+DEA8", "U+DEA9", "U+DEAA", "U+DEAB", "U+DEAC", "U+DEAD",
          "U+DEAE", "U+DEAF", "U+DEB0", "U+DEB1", "U+DEB2", "U+DEB3",
          "U+DEB4", "U+DEB5", "U+DEB6", "U+DEB7", "U+DEB8", "U+DEB9",
          "U+DEBA", "U+DEBB", "U+DEBC", "U+DEBD", "U+DEBE", "U+DEBF",
          "U+DEC0", "U+DEC2", "U+DEC3", "U+DEC4", "U+DEC5", "U+DEC6",
          "U+DEC7", "U+DEC8", "U+DEC9", "U+DECA", "U+DECB", "U+DECC",
          "U+DECD", "U+DECE", "U+DECF", "U+DED0", "U+DED1", "U+DED2",
          "U+DED3", "U+DED4", "U+DED5", "U+DED6", "U+DED7", "U+DED8",
          "U+DED9", "U+DEDA", "U+DEDC", "U+DEDD", "U+DEDE", "U+DEDF",
          "U+DEE0", "U+DEE1", "U+DEE2", "U+DEE3", "U+DEE4", "U+DEE5",
          "U+DEE6", "U+DEE7", "U+DEE8", "U+DEE9", "U+DEEA", "U+DEEB",
          "U+DEEC", "U+DEED", "U+DEEE", "U+DEEF", "U+DEF0", "U+DEF1",
          "U+DEF2", "U+DEF3", "U+DEF4", "U+DEF5", "U+DEF6", "U+DEF7",
          "U+DEF8", "U+DEF9", "U+DEFA", "U+DEFC", "U+DEFD", "U+DEFE",
          "U+DEFF", "U+DF00", "U+DF01", "U+DF02", "U+DF03", "U+DF04",
          "U+DF05", "U+DF06", "U+DF07", "U+DF08", "U+DF09", "U+DF0A",
          "U+DF0B", "U+DF0C", "U+DF0D", "U+DF0E", "U+DF0F", "U+DF10",
          "U+DF11", "U+DF12", "U+DF13", "U+DF14", "U+DF16", "U+DF17",
          "U+DF18", "U+DF19", "U+DF1A", "U+DF1B", "U+DF1C", "U+DF1D",
          "U+DF1E", "U+DF1F", "U+DF20", "U+DF21", "U+DF22", "U+DF23",
          "U+DF24", "U+DF25", "U+DF26", "U+DF27", "U+DF28", "U+DF29",
          "U+DF2A", "U+DF2B", "U+DF2C", "U+DF2D", "U+DF2E", "U+DF2F",
          "U+DF30", "U+DF31", "U+DF32", "U+DF33", "U+DF34", "U+DF36",
          "U+DF37", "U+DF38", "U+DF39", "U+DF3A", "U+DF3B", "U+DF3C",
          "U+DF3D", "U+DF3E", "U+DF3F", "U+DF40", "U+DF41", "U+DF42",
          "U+DF43", "U+DF44", "U+DF45", "U+DF46", "U+DF47", "U+DF48",
          "U+DF49", "U+DF4A", "U+DF4B", "U+DF4C", "U+DF4D", "U+DF4E",
          "U+DF50", "U+DF51", "U+DF52", "U+DF53", "U+DF54", "U+DF55",
          "U+DF56", "U+DF57", "U+DF58", "U+DF59", "U+DF5A", "U+DF5B",
          "U+DF5C", "U+DF5D", "U+DF5E", "U+DF5F", "U+DF60", "U+DF61",
          "U+DF62", "U+DF63", "U+DF64", "U+DF65", "U+DF66", "U+DF67",
          "U+DF68", "U+DF69", "U+DF6A", "U+DF6B", "U+DF6C", "U+DF6D",
          "U+DF6E", "U+DF70", "U+DF71", "U+DF72", "U+DF73", "U+DF74",
          "U+DF75", "U+DF76", "U+DF77", "U+DF78", "U+DF79", "U+DF7A",
          "U+DF7B", "U+DF7C", "U+DF7D", "U+DF7E", "U+DF7F", "U+DF80",
          "U+DF81", "U+DF82", "U+DF83", "U+DF84", "U+DF85", "U+DF86",
          "U+DF87", "U+DF88", "U+DF8A", "U+DF8B", "U+DF8C", "U+DF8D",
          "U+DF8E", "U+DF8F", "U+DF90", "U+DF91", "U+DF92", "U+DF93",
          "U+DF94", "U+DF95", "U+DF96", "U+DF97", "U+DF98", "U+DF99",
          "U+DF9A", "U+DF9B", "U+DF9C", "U+DF9D", "U+DF9E", "U+DF9F",
          "U+DFA0", "U+DFA1", "U+DFA2", "U+DFA3", "U+DFA4", "U+DFA5",
          "U+DFA6", "U+DFA7", "U+DFA8", "U+DFAA", "U+DFAB", "U+DFAC",
          "U+DFAD", "U+DFAE", "U+DFAF", "U+DFB0", "U+DFB1", "U+DFB2",
          "U+DFB3", "U+DFB4", "U+DFB5", "U+DFB6", "U+DFB7", "U+DFB8",
          "U+DFB9", "U+DFBA", "U+DFBB", "U+DFBC", "U+DFBD", "U+DFBE",
          "U+DFBF", "U+DFC0", "U+DFC1", "U+DFC2", "U+DFC4", "U+DFC5",
          "U+DFC6", "U+DFC7", "U+DFC8", "U+DFC9", "U+DFCA", "U+DFCB" })
    \cup ({"U+D837"} \X
        { "U+DF00", "U+DF01", "U+DF02", "U+DF03", "U+DF04", "U+DF05",
          "U+DF06", "U+DF07", "U+DF08", "U+DF09", "U+DF0B", "U+DF0C",
          "U+DF0D", "U+DF0E", "U+DF0F", "U+DF10", "U+DF11", "U+DF12",
          "U+DF13", "U+DF14", "U+DF15", "U+DF16", "U+DF17", "U+DF18",
          "U+DF19", "U+DF1A", "U+DF1B", "U+DF1C", "U+DF1D", "U+DF1E",
          "U+DF25", "U+DF26", "U+DF27", "U+DF28", "U+DF29", "U+DF2A" })
    \cup ({"U+D83A"} \X
        { "U+DD00", "U+DD01", "U+DD02", "U+DD03", "U+DD04", "U+DD05",
          "U+DD06", "U+DD07", "U+DD08", "U+DD09", "U+DD0A", "U+DD0B",
          "U+DD0C", "U+DD0D", "U+DD0E", "U+DD0F", "U+DD10", "U+DD11",
          "U+DD12", "U+DD13", "U+DD14", "U+DD15", "U+DD16", "U+DD17",
          "U+DD18", "U+DD19", "U+DD1A", "U+DD1B", "U+DD1C", "U+DD1D",
          "U+DD1E", "U+DD1F", "U+DD20", "U+DD21", "U+DD22", "U+DD23",
          "U+DD24", "U+DD25", "U+DD26", "U+DD27", "U+DD28", "U+DD29",
          "U+DD2A", "U+DD2B", "U+DD2C", "U+DD2D", "U+DD2E", "U+DD2F",
          "U+DD30", "U+DD31", "U+DD32", "U+DD33", "U+DD34", "U+DD35",
          "U+DD36", "U+DD37", "U+DD38", "U+DD39", "U+DD3A", "U+DD3B",
          "U+DD3C", "U+DD3D", "U+DD3E", "U+DD3F", "U+DD40", "U+DD41",
          "U+DD42", "U+DD43" })
    \cup ({"U+D83C"} \X
        { "U+DD30", "U+DD31", "U+DD32", "U+DD33", "U+DD34", "U+DD35",
          "U+DD36", "U+DD37", "U+DD38", "U+DD39", "U+DD3A", "U+DD3B",
          "U+DD3C", "U+DD3D", "U+DD3E", "U+DD3F", "U+DD40", "U+DD41",
          "U+DD42", "U+DD43", "U+DD44", "U+DD45", "U+DD46", "U+DD47",
          "U+DD48", "U+DD49", "U+DD50", "U+DD51", "U+DD52", "U+DD53",
          "U+DD54", "U+DD55", "U+DD56", "U+DD57", "U+DD58", "U+DD59",
          "U+DD5A", "U+DD5B", "U+DD5C", "U+DD5D", "U+DD5E", "U+DD5F",
          "U+DD60", "U+DD61", "U+DD62", "U+DD63", "U+DD64", "U+DD65",
          "U+DD66", "U+DD67", "U+DD68", "U+DD69", "U+DD70", "U+DD71",
          "U+DD72", "U+DD73", "U+DD74", "U+DD75", "U+DD76", "U+DD77",
          "U+DD78", "U+DD79", "U+DD7A", "U+DD7B", "U+DD7C", "U+DD7D",
          "U+DD7E", "U+DD7F", "U+DD80", "U+DD81", "U+DD82", "U+DD83",
          "U+DD84", "U+DD85", "U+DD86", "U+DD87", "U+DD88", "U+DD89" })

\* The characters toLowerCase changes into one other character.
UpperLetters == DOMAIN LowerLetters

\* The capital sigma at position i of str is a final one (the condition
\* Final_Sigma of the Unicode Standard, which toLowerCase observes): the cased
\* letter next before it, case-ignorable characters skipped, exists, and no
\* cased letter comes next after it, case-ignorable characters skipped.
FinalSigma(str, i) ==
    LET PairAt(k)    == <<str[k], str[k + 1]>>
        Ignorable(k) == \/ str[k] \in CaseIgnorable
                        \/ k < Len(str) /\ PairAt(k) \in CaseIgnorablePairs
                        \/ k > 1 /\ PairAt(k - 1) \in CaseIgnorablePairs
        IsCased(k)   == \/ str[k] \in Cased
                        \/ k < Len(str) /\ PairAt(k) \in CasedPairs
                        \/ k > 1 /\ PairAt(k - 1) \in CasedPairs
    IN  /\ \E j \in 1..(i - 1) :
              IsCased(j) /\ \A m \in (j + 1)..(i - 1) : Ignorable(m)
        /\ ~\E j \in (i + 1)..Len(str) :
              IsCased(j) /\ \A m \in (i + 1)..(j - 1) : Ignorable(m)

\* What toLowerCase puts in the place of character k of str: two characters
\* for the capital I with a dot above (U+0130), an i and a combining dot
\* above; a final or a plain small sigma for the capital sigma (U+03A3); the
\* half of the lower-case pair for a half of an upper-case surrogate pair;
\* the lower-case letter for an upper-case letter; else the character.
LowerOf(str, k) ==
    LET ch == str[k]
        UpperSurrogatePairs == DOMAIN LowerSurrogatePairs
    IN  IF ch = "U+0130" THEN <<"i", "U+0307">>
        ELSE IF ch = "U+03A3"
        THEN IF FinalSigma(str, k) THEN <<"U+03C2">> ELSE <<"U+03C3">>
        ELSE IF ch \in UpperLetters THEN <<LowerLetters[ch]>>
        ELSE IF k < Len(str) /\ <<ch, str[k + 1]>> \in UpperSurrogatePairs
        THEN <<LowerSurrogatePairs[<<ch, str[k + 1]>>][1]>>
        ELSE IF k > 1 /\ <<str[k - 1], ch>> \in UpperSurrogatePairs
        THEN <<LowerSurrogatePairs[<<str[k - 1], ch>>][2]>>
        ELSE <<ch>>

\* str.toLowerCase(): what takes the places of its characters, one after
\* another.  With a U+0130 in str, what takes the place of character k ends
\* at position EndOf(k) of the result.
ToLowerCase(str) ==
    IF \A k \in DOMAIN str : str[k] # "U+0130"
    THEN [k \in DOMAIN str |-> LowerOf(str, k)[1]]
    ELSE LET EndOf(k) == k + Cardinality({j \in 1..k : str[j] = "U+0130"})
         IN  [i \in 1..EndOf(Len(str)) |->
                 LET k == CHOOSE j \in DOMAIN str : EndOf(j - 1) < i /\ i <= EndOf(j)
                 IN  LowerOf(str, k)[i - EndOf(k - 1)]]

\* [^\s@]+ : one or more characters, none of them white space or '@'
LocalOrDomainPart(str) ==
    /\ str # <<>>
    /\ \A k \in DOMAIN str : str[k] \notin WhiteSpace \cup {"@"}

\* /^[^\s@]+@[^\s@]+\.[^\s@]+$/.test(str)
EmailShape(str) ==
    \E at \in DOMAIN str :
        /\ str[at] = "@"
        /\ LocalOrDomainPart(SubSeq(str, 1, at - 1))
        /\ \E dot \in (at + 1)..Len(str) :
              /\ str[dot] = "."
              /\ LocalOrDomainPart(SubSeq(str, at + 1, dot - 1))
              /\ LocalOrDomainPart(SubSeq(str, dot + 1, Len(str)))

\* validateEmail(email)
validateEmail(email) ==
    LET sanitized == ToLowerCase(Trim(email))
    IN  [ sanitized |-> sanitized,
          errors    |-> IF sanitized = <<>> THEN <<"Email is required">>
                        ELSE IF ~EmailShape(sanitized)
                        THEN <<"Please enter a valid email address">>
                        ELSE IF Len(sanitized) > 254 THEN <<"Email address is too long">>
                        ELSE <<>> ]

validatePasswordDigitBeforeUpper(password) ==
    [ errors |->
        IF password = <<>> THEN <<"Password is required">>
        ELSE IF Len(password) < 8
        THEN <<"Password must be at least 8 characters long">>
        ELSE IF Len(password) > 128 THEN <<"Password is too long">>
        ELSE IF ~\E k \in DOMAIN password : password[k] \in LowerCase
        THEN <<"Password must contain at least one lowercase letter">>
        ELSE IF ~\E k \in DOMAIN password : password[k] \in DigitChars
        THEN <<"Password must contain at least one number">>
        ELSE IF ~\E k \in DOMAIN password : password[k] \in UpperCase
        THEN <<"Password must contain at least one uppercase letter">>
        ELSE <<>> ]

\* validatePassword(password)
validatePassword(password) ==
    [ errors |->
        IF password = <<>> THEN <<"Password is required">>
        ELSE IF Len(password) < 8
        THEN <<"Password must be at least 8 characters long">>
        ELSE IF Len(password) > 128 THEN <<"Password is too long">>
        ELSE IF ~\E k \in DOMAIN password : password[k] \in LowerCase
        THEN <<"Password must contain at least one lowercase letter">>
        ELSE IF ~\E k \in DOMAIN password : password[k] \in UpperCase
        THEN <<"Password must contain at least one uppercase letter">>
        ELSE IF ~\E k \in DOMAIN password : password[k] \in DigitChars
        THEN <<"Password must contain at least one number">>
        ELSE <<>> ]

\* /^[a-zA-Z\s'-]+$/.test(str)
NameShape(str) ==
    /\ str # <<>>
    /\ \A k \in DOMAIN str :
          str[k] \in LowerCase \cup UpperCase \cup WhiteSpace \cup {"'", "-"}

\* validateName(name)
validateName(name) ==
    LET sanitized == Trim(sanitizeText(name))
    IN  [ sanitized |-> sanitized,
          errors    |-> IF sanitized = <<>> THEN <<"Name is required">>
                        ELSE IF Len(sanitized) < 2
                        THEN <<"Name must be at least 2 characters long">>
                        ELSE IF Len(sanitized) > 100
                        THEN <<"Name must be less than 100 characters">>
                        ELSE IF ~NameShape(sanitized)
                        THEN <<"Name can only contain letters, spaces, hyphens, and apostrophes">>
                        ELSE <<>> ]

-----------------------------------------------------------------------------
(* app/lib/actions/auth-actions.ts                                         *)

\* { error: null }
Null == "null"

loginValidationPasswordFirst(data) ==
    LET emailValidation    == validateEmail(data.email)
        passwordValidation == validatePassword(data.password)
    IN  IF passwordValidation.errors # <<>> THEN passwordValidation.errors[1]
        ELSE IF emailValidation.errors # <<>> THEN emailValidation.errors[1]
        ELSE Null

\* login(data) up to the platform call: the error it returns at once, or Null
\* when both validations pass and it goes on to signInWithPassword.
loginValidation(data) ==
    LET emailValidation    == validateEmail(data.email)
        passwordValidation == validatePassword(data.password)
    IN  IF emailValidation.errors # <<>> THEN emailValidation.errors[1]
        ELSE IF passwordValidation.errors # <<>> THEN passwordValidation.errors[1]
        ELSE Null

\* register(data) up to the platform call: the error it returns at once, or
\* Null when the three validations pass and it goes on to signUp.
registerValidation(data) ==
    LET emailValidation    == validateEmail(data.email)
        passwordValidation == validatePassword(data.password)
        nameValidation     == validateName(data.name)
    IN  IF emailValidation.errors # <<>> THEN emailValidation.errors[1]
        ELSE IF passwordValidation.errors # <<>> THEN passwordValidation.errors[1]
        ELSE IF nameValidation.errors # <<>> THEN nameValidation.errors[1]
        ELSE Null

\* What each action returns as error when the platform call came back with an
\* error whose message is message.
ErrorOnPlatformFailure(handler, message) ==
    CASE handler = "login"    -> "Invalid email or password"
      [] handler = "register" -> "Failed to create account. Please try again."
      [] handler = "logout"   -> message

-----------------------------------------------------------------------------
(* The authorization gate of the poll actions (app/lib/actions/            *)
(* poll-actions.ts, of which the repository holds the description only)    *)

\* The acting identity of a caller without a session.
Unauthenticated == "unauthenticated"

AnyAuthenticatedMayMutate(actor, poll) == actor # Unauthenticated /\ poll # None

\* Update and delete are permitted only to the poll's owner.
MayMutate(actor, poll) ==
    /\ actor # Unauthenticated
    /\ poll # None
    /\ poll.ownerId = actor

\* createPoll by actor: the table it leaves and the error it returns.
createPoll(table, actor, id, question) ==
    IF actor = Unauthenticated
    THEN [polls |-> table, error |-> "Unauthenticated"]
    ELSE [ polls |-> [table EXCEPT ![id] = [ownerId |-> actor, question |-> question]],
           error |-> Null ]

\* deletePoll(id) by actor: the table it leaves and the error it returns.
deletePoll(table, actor, id) ==
    IF MayMutate(actor, table[id])
    THEN [polls |-> [table EXCEPT ![id] = None], error |-> Null]
    ELSE [polls |-> table, error |-> "Forbidden"]

\* updatePoll(id, question) by actor: the table it leaves and the error it returns.
updatePoll(table, actor, id, question) ==
    IF MayMutate(actor, table[id])
    THEN [polls |-> [table EXCEPT ![id].question = question], error |-> Null]
    ELSE [polls |-> table, error |-> "Forbidden"]

-----------------------------------------------------------------------------
(* lib/middleware/rate-limit.ts                                            *)

Digits == <<"0", "1", "2", "3", "4", "5", "6", "7", "8", "9">>

\* Number.prototype.toString() of an integer
RECURSIVE NumberToString(_)
NumberToString(n) ==
    IF n < 0 THEN <<"-">> \o NumberToString(-n)
    ELSE IF n < 10 THEN <<Digits[n + 1]>>
    ELSE NumberToString(n \div 10) \o <<Digits[(n % 10) + 1]>>

\* Math.ceil(ms / 1000)
CeilSeconds(ms) == -((-ms) \div 1000)

StatusOfDenied200(result, t) == 200

\* status: 429
StatusOfDenied(result, t) == 429

\* Headers.set(name, value)
HeadersSet(headers, name, value) == (name :> value) @@ headers

\* The response withRateLimit builds itself when the limiter denies.
TooManyRequests(result, tBody, tHeader) ==
    [ status  |-> StatusOfDenied(result, tBody),
      body    |-> [ error      |-> "Too many requests. Please try again later.",
                    retryAfter |-> CeilSeconds(result.resetTime - tBody) ],
      headers |-> ( "Content-Type"          :> <<"application/json">> @@
                    "Retry-After"           :> NumberToString(CeilSeconds(result.resetTime - tHeader)) @@
                    "X-RateLimit-Limit"     :> <<"5">> @@
                    "X-RateLimit-Remaining" :> NumberToString(result.remaining) @@
                    "X-RateLimit-Reset"     :> NumberToString(result.resetTime) ) ]

\* The handler's response with the three rate-limit headers set on it.
WithRateLimitHeaders(response, result) ==
    [ response EXCEPT !.headers =
        HeadersSet(
            HeadersSet(
                HeadersSet(response.headers, "X-RateLimit-Limit", <<"5">>),
                "X-RateLimit-Remaining", NumberToString(result.remaining)),
            "X-RateLimit-Reset", NumberToString(result.resetTime)) ]

-----------------------------------------------------------------------------
(* Bounds of the limiter runs                                              *)

\* Clock steps per run.
MaxAdvances == 3

\* Calls a key may make beyond its cap within one window.
MaxDenied == 2

\* Client identifiers.
Identifiers == { <<"1">>, <<"2">> }

\* A run exercises two keys: two clients of one class, one client in two
\* classes, or two clients in two classes.
Workloads ==
    { { <<"auth", <<"1">>>>, <<"auth", <<"2">>>> },
      { <<"auth", <<"1">>>>, <<"pollCreation", <<"1">>>> },
      { <<"api", <<"1">>>>,  <<"pollCreation", <<"2">>>> } }

\* The clock moves by one millisecond or to one millisecond short of a window.
Deltas == {1} \cup {RATE_LIMITS[type].windowMs - 1 : type \in LimitTypes}

EmptyStore == [k \in {} |-> None]

Pairs == LimitTypes \X (Identifiers \cup {Unknown})

\* The fixed window a call at time t falls in, counted apart from the store:
\* a window opens with the first call and closes once t passes start + windowMs.
WindowAfterCall(w, type, t) ==
    IF w = None \/ t > w.start + RATE_LIMITS[type].windowMs
    THEN [start |-> t, calls |-> 1]
    ELSE [w EXCEPT !.calls = w.calls + 1]

\* No request is in a wrapped handler.
MiddlewareIdle ==
    /\ routeType = "api"
    /\ requests = <<>>

\* Nothing has been handed to the sanitizers and validators.
TextIdle ==
    /\ text = <<>>
    /\ sanitizedOut = None
    /\ pollOptions = <<>>
    /\ validated = None

AuthHandlers == {"login", "register", "logout"}

\* No auth action has run.
AuthIdle ==
    /\ authPending = EmptyBag
    /\ authReq = None
    /\ failed = [h \in AuthHandlers |-> {}]
    /\ authWindow = None

PollIds == {"p1", "p2"}

\* No poll exists.
PollsIdle ==
    /\ polls = [id \in PollIds |-> None]
    /\ lastPollOp = None

\* The limiter's store is empty and its clock stands at 0.
LimiterIdle ==
    /\ rateLimitStore = EmptyStore
    /\ now = 0
    /\ advances = 0
    /\ workload = {}
    /\ window = [p \in Pairs |-> None]
    /\ last = None

LimiterInit ==
    /\ rateLimitStore = EmptyStore
    /\ now = 0
    /\ advances = 0
    /\ workload \in Workloads
    /\ window = [p \in Pairs |-> None]
    /\ last = None
    /\ MiddlewareIdle
    /\ TextIdle
    /\ AuthIdle
    /\ PollsIdle

\* A caller runs checkRateLimit(identifier, type).
Call(identifier, type) ==
    LET out == checkRateLimit(rateLimitStore, identifier, type, now)
        key == Key(type, identifier)
        w   == WindowAfterCall(window[<<type, identifier>>], type, now)
    IN  /\ <<type, identifier>> \in workload
        /\ w.calls <= RATE_LIMITS[type].maxAttempts + MaxDenied
        /\ rateLimitStore' = out.store
        /\ window' = [window EXCEPT ![<<type, identifier>>] = w]
        /\ last' = [ op         |-> "check",
                     type       |-> type,
                     identifier |-> identifier,
                     store      |-> rateLimitStore,
                     before     |-> StoreGet(rateLimitStore, key),
                     after      |-> StoreGet(out.store, key),
                     result     |-> out.result ]
        /\ UNCHANGED <<now, advances, workload, outsideLimiter>>

\* The clock moves on.
Advance(d) ==
    /\ advances < MaxAdvances
    /\ now' = now + d
    /\ advances' = advances + 1
    /\ last' = None
    /\ UNCHANGED <<rateLimitStore, workload, window, outsideLimiter>>

\* The interval timer runs cleanupExpiredEntries().
Sweep ==
    /\ rateLimitStore' = cleanupExpiredEntries(rateLimitStore, now)
    /\ last' = [ op      |-> "sweep",
                 removed |-> {rateLimitStore[k] : k \in DOMAIN rateLimitStore \ DOMAIN rateLimitStore'} ]
    /\ UNCHANGED <<now, advances, workload, window, outsideLimiter>>

LimiterNext ==
    \/ \E identifier \in Identifiers, type \in LimitTypes : Call(identifier, type)
    \/ \E d \in Deltas : Advance(d)
    \/ Sweep

Spec == LimiterInit /\ [][LimiterNext]_vars

-----------------------------------------------------------------------------
(* Requests through withRateLimit(handler, rateLimitType)                  *)

\* Requests per run, numbered in order of arrival; any of them can be in the
\* handler at once.
MaxRequests == 2

RequestIds == 1..MaxRequests

\* The client whose earlier traffic a run starts from.
EarlierClient == <<"1">>

\* The stores earlier traffic of that client on the route leaves at time 0:
\* no entry, or count calls in the window opened at time 0.
StoresAtStart(type) ==
    {EmptyStore} \cup
    { StoreSet(EmptyStore, Key(type, EarlierClient),
               [count |-> c, resetTime |-> RATE_LIMITS[type].windowMs]) :
      c \in 1..RATE_LIMITS[type].maxAttempts }

\* The clock moves by one millisecond or to one millisecond short of the route's window.
RouteDeltas == {1, RATE_LIMITS[routeType].windowMs - 1}

\* The headers requests arrive with.
RequestHeaders ==
    { "cf-connecting-ip" :> <<"1">> @@ "x-real-ip" :> <<"2">>,
      "x-forwarded-for" :> <<"\f", "1", "U+00A0", ",", "2">>,
      "x-real-ip" :> <<>>,
      [h \in {} |-> <<>>] }

\* Milliseconds the clock moves between one Date.now() of a request and its
\* next: the denied branch reads the clock again for the body's retryAfter
\* (line 19) and once more for the Retry-After header (line 25).
ClockTicks == {0, 1}

\* What the wrapped handler answers when it does not throw.
HandlerResponse ==
    [ status  |-> 200,
      body    |-> "ok",
      headers |-> ("Content-Type" :> <<"text/plain">>) ]

MiddlewareInit ==
    /\ routeType \in LimitTypes
    /\ rateLimitStore \in StoresAtStart(routeType)
    /\ now = 0
    /\ advances = 0
    /\ workload = {}
    /\ window = [p \in Pairs |-> None]
    /\ last = None
    /\ requests = <<>>
    /\ TextIdle
    /\ AuthIdle
    /\ PollsIdle

\* A request arrives: lines 12-35 run without yielding, up to the await of the
\* handler's promise or the return of the 429 response.
Receive(r, headers, tickBody, tickHeader) ==
    LET clientIP == getClientIP(headers)
        out      == checkRateLimit(rateLimitStore, clientIP, routeType, now)
        before   == StoreGet(rateLimitStore, Key(routeType, clientIP))
    IN  /\ r = Len(requests) + 1
        /\ rateLimitStore' = out.store
        /\ requests' = Append(requests,
                 [ pc           |-> IF out.result.allowed THEN "handler" ELSE "responded",
                      clientIP     |-> clientIP,
                      seen         |-> IF before = None \/ WindowExpired(before, now)
                                       THEN 0 ELSE before.count,
                      result       |-> out.result,
                      handlerCalls |-> IF out.result.allowed THEN 1 ELSE 0,
                      response     |-> IF out.result.allowed
                                       THEN None
                                       ELSE TooManyRequests(out.result,
                                                now + tickBody,
                                                now + tickBody + tickHeader) ])
        /\ out.result.allowed => (tickBody = 0 /\ tickHeader = 0)
        /\ now' = now + tickBody + tickHeader
        /\ UNCHANGED <<advances, workload, window, last, routeType, outsideMiddleware>>

\* The interval timer runs cleanupExpiredEntries() between the steps of requests.
SweepBetweenRequests ==
    /\ rateLimitStore' = cleanupExpiredEntries(rateLimitStore, now)
    /\ UNCHANGED <<now, advances, workload, window, last, middlewareVars, outsideMiddleware>>

\* The handler's promise resolves: lines 36-40.
HandlerResolves(r) ==
    /\ r \in DOMAIN requests
    /\ requests[r].pc = "handler"
    /\ requests' = [requests EXCEPT
            ![r].pc = "responded",
            ![r].response = WithRateLimitHeaders(HandlerResponse, requests[r].result)]
    /\ UNCHANGED <<limiterVars, routeType, outsideMiddleware>>

\* The handler's promise rejects: the await at line 35 throws.
HandlerRejects(r) ==
    /\ r \in DOMAIN requests
    /\ requests[r].pc = "handler"
    /\ requests' = [requests EXCEPT ![r].pc = "rejected"]
    /\ UNCHANGED <<limiterVars, routeType, outsideMiddleware>>

MiddlewareNext ==
    \/ \E r \in RequestIds, headers \in RequestHeaders,
          tickBody \in ClockTicks, tickHeader \in ClockTicks :
          Receive(r, headers, tickBody, tickHeader)
    \/ \E r \in RequestIds : HandlerResolves(r)
    \/ \E r \in RequestIds : HandlerRejects(r)
    \/ \E d \in RouteDeltas : Advance(d)
    \/ SweepBetweenRequests

SpecMiddleware == MiddlewareInit /\ [][MiddlewareNext]_vars

-----------------------------------------------------------------------------
(* Requests told apart by their headers: withRateLimit, lines 12-13        *)

\* Requests per run.
MaxIdentified == 2

\* Values headers.get answers with for cf-connecting-ip and x-real-ip.
AddressValues == { <<>>, <<"1">>, <<"2">> }

\* Values it answers with for x-forwarded-for.
ForwardedValues ==
    { <<>>,
      <<"2">>,
      <<"\f", "1", "U+00A0", ",", " ", "2">>,
      <<",", "2">> }

\* The header maps with none, some or all of the three headers.
HeaderMaps ==
    { [name \in present |->
          IF name = "cf-connecting-ip" THEN cf
          ELSE IF name = "x-real-ip" THEN real
          ELSE forwarded] :
        present \in SUBSET {"cf-connecting-ip", "x-real-ip", "x-forwarded-for"},
        cf \in AddressValues, real \in AddressValues, forwarded \in ForwardedValues }

\* Calls the store has counted.
RECURSIVE Counted(_)
Counted(store) ==
    IF DOMAIN store = {} THEN 0
    ELSE LET k == CHOOSE key \in DOMAIN store : TRUE
         IN  store[k].count + Counted([key \in DOMAIN store \ {k} |-> store[key]])

ClientIPInit ==
    /\ LimiterIdle
    /\ MiddlewareIdle
    /\ TextIdle
    /\ AuthIdle
    /\ PollsIdle

\* A request with these headers reaches a handler wrapped for this class:
\* getClientIP names the client and checkRateLimit counts the request.
Identify(headers, type) ==
    LET clientIP == getClientIP(headers)
        out      == checkRateLimit(rateLimitStore, clientIP, type, now)
        key      == Key(type, clientIP)
    IN  /\ Counted(rateLimitStore) < MaxIdentified
        /\ rateLimitStore' = out.store
        /\ last' = [ op         |-> "request",
                     headers    |-> headers,
                     type       |-> type,
                     identifier |-> clientIP,
                     before     |-> rateLimitStore,
                     result     |-> out.result ]
        /\ UNCHANGED <<now, advances, workload, window, outsideLimiter>>

ClientIPNext == \E headers \in HeaderMaps, type \in LimitTypes : Identify(headers, type)

SpecClientIP == ClientIPInit /\ [][ClientIPNext]_vars

-----------------------------------------------------------------------------
(* The sanitizers and validatePollOptions applied to bounded inputs        *)

\* Length of the strings handed to the sanitizers.
MaxTextLen == 4

\* Their characters: the six sanitizeHtml escapes, a letter and a white space
\* outside ASCII (the line separator).
TextAlphabet == {"<", ">", "&", "\"", "'", "/", "a", "U+2028"}

Strings(alphabet, n) == UNION { [1..k -> alphabet] : k \in 0..n }

SanitizeInit ==
    /\ text \in Strings(TextAlphabet, MaxTextLen)
    /\ sanitizedOut = None
    /\ pollOptions = <<>>
    /\ validated = None
    /\ LimiterIdle
    /\ MiddlewareIdle
    /\ AuthIdle
    /\ PollsIdle

\* The string goes through sanitizeHtml and through sanitizeText.
Sanitize ==
    /\ sanitizedOut = None
    /\ sanitizedOut' = [ op       |-> "sanitize",
                         html     |-> sanitizeHtml(text),
                         stripped |-> StripTags(text),
                         text     |-> sanitizeText(text) ]
    /\ UNCHANGED <<text, pollOptions, validated, limiterVars, middlewareVars, authVars, pollVars>>

SanitizeNext == Sanitize

SpecSanitize == SanitizeInit /\ [][SanitizeNext]_vars

\* str.repeat(n)
Repeat(str, n) == [k \in 1..(n * Len(str)) |-> str[((k - 1) % Len(str)) + 1]]

\* Options a user may type: empty, blank, plain, tagged, and long ones on
\* both sides of 200 characters before and after sanitizing.
OptionPool ==
    { <<>>,
      <<"U+3000", "\r">>,
      <<"A">>,
      <<"\r", "<", "b", ">", "A", "<", "/", "b", ">">>,
      <<"<", "b", ">">>,
      Repeat(<<"a">>, 200),
      Repeat(<<"a">>, 201),
      Repeat(<<"&">>, 40),
      Repeat(<<"&">>, 41),
      <<"<", "i", ">">> \o Repeat(<<"a">>, 199) }

\* Options of the pool at the head of an array.
MaxPoolOptions == 2

\* Numbers of distinct well-formed options after them: arrays of fewer than
\* 2, of 2 to 10 and of more than 10 options come about.
PlainCounts == {0, 8, 9, 10}

PlainOption(k) == <<"o", "p", "t">> \o NumberToString(k)

OptionArrays ==
    { head \o [k \in 1..n |-> PlainOption(k)] :
        head \in Strings(OptionPool, MaxPoolOptions), n \in PlainCounts }

OptionsInit ==
    /\ pollOptions \in OptionArrays
    /\ validated = None
    /\ text = <<>>
    /\ sanitizedOut = None
    /\ LimiterIdle
    /\ MiddlewareIdle
    /\ AuthIdle
    /\ PollsIdle

\* The array goes through validatePollOptions.
ValidateOptions ==
    /\ validated = None
    /\ validated' = [op |-> "validate"] @@ validatePollOptions(pollOptions)
    /\ UNCHANGED <<text, sanitizedOut, pollOptions, limiterVars, middlewareVars, authVars, pollVars>>

OptionsNext == ValidateOptions

SpecOptions == OptionsInit /\ [][OptionsNext]_vars

-----------------------------------------------------------------------------
(* validateName applied to bounded names                                   *)

\* Length of the short names.
MaxNameLen == 4

\* Their characters: letters, the three other characters the rule admits,
\* a white space other than the space (the ogham space mark), a letter
\* outside ASCII (e with acute), the angle brackets of a tag, and a digit.
NameAlphabet == {"A", "n", " ", "-", "'", "U+1680", "U+00E9", "<", ">", "1"}

\* Names on both sides of 100 characters.
LongNames == { Repeat(<<"n">>, 100), Repeat(<<"n">>, 101), <<" ">> \o Repeat(<<"n">>, 100) }

NamesInit ==
    /\ text \in Strings(NameAlphabet, MaxNameLen) \cup LongNames
    /\ validated = None
    /\ sanitizedOut = None
    /\ pollOptions = <<>>
    /\ LimiterIdle
    /\ MiddlewareIdle
    /\ AuthIdle
    /\ PollsIdle

\* The name goes through validateName.
ValidateName ==
    /\ validated = None
    /\ validated' = [op |-> "validateName"] @@ validateName(text)
    /\ UNCHANGED <<text, sanitizedOut, pollOptions, limiterVars, middlewareVars, authVars, pollVars>>

NamesNext == ValidateName

SpecNames == NamesInit /\ [][NamesNext]_vars

-----------------------------------------------------------------------------
(* validatePassword applied to bounded passwords                           *)

\* Length of the part of a password that varies.
MaxPasswordHead == 3

\* Its characters: a lowercase letter, an uppercase letter and a digit.
PasswordAlphabet == {"a", "A", "1"}

\* Hyphens that follow it: passwords of 0 to 3, 5 to 8, 8 to 11, 125 to 128
\* and 126 to 129 characters come about.
PadLengths == {0, 5, 8, 125, 126}

PasswordInputs ==
    { head \o Repeat(<<"-">>, n) :
        head \in Strings(PasswordAlphabet, MaxPasswordHead), n \in PadLengths }

PasswordsInit ==
    /\ text \in PasswordInputs
    /\ validated = None
    /\ sanitizedOut = None
    /\ pollOptions = <<>>
    /\ LimiterIdle
    /\ MiddlewareIdle
    /\ AuthIdle
    /\ PollsIdle

\* The password goes through validatePassword.
ValidatePassword ==
    /\ validated = None
    /\ validated' = [op |-> "validatePassword"] @@ validatePassword(text)
    /\ UNCHANGED <<text, sanitizedOut, pollOptions, limiterVars, middlewareVars, authVars, pollVars>>

PasswordsNext == ValidatePassword

SpecPasswords == PasswordsInit /\ [][PasswordsNext]_vars

-----------------------------------------------------------------------------
(* The auth actions, several at a time, against a platform that may fail   *)

\* Auth actions in progress at once.
MaxAuthPending == 2

\* The forms submitted: filled in well up to some field and badly from there
\* on, so that each field is the first invalid one of some form and every
\* form with an invalid field has invalid fields after it.
Forms ==
    { [ email    |-> <<"U+00A0", "U+00C9", "U+212A", "U+0897", "U+03A3", "@", "b", ".", "c", "\r">>,
        password |-> <<"A", "b", "c", "d", "e", "f", "g", "1">>,
        name     |-> <<"A", "n", "n">> ],
      [ email    |-> <<"U+00A0", "U+00C9", "U+212A", "U+0897", "U+03A3", "@", "b", ".", "c", "\r">>,
        password |-> <<"A", "b", "c", "d", "e", "f", "g", "1">>,
        name     |-> <<"<", "b", ">">> ],
      [ email    |-> <<"U+00A0", "U+00C9", "U+212A", "U+0897", "U+03A3", "@", "b", ".", "c", "\r">>,
        password |-> <<"s", "h", "o", "r", "t">>,
        name     |-> <<"<", "b", ">">> ],
      [ email    |-> <<"a", "@", "b">>,
        password |-> <<"s", "h", "o", "r", "t">>,
        name     |-> <<"<", "b", ">">> ] }

\* LoginFormData and RegisterFormData
LoginForms == { [email |-> form.email, password |-> form.password] : form \in Forms }

RegisterForms == Forms

\* Messages of the errors the platform answers with.
PlatformErrors == {"Invalid login credentials", "Database error: connection refused"}

\* What an action that rejects hands its caller in place of a result.
Thrown == "thrown"

AuthInit ==
    /\ AuthIdle
    /\ LimiterIdle
    /\ MiddlewareIdle
    /\ TextIdle
    /\ PollsIdle

\* The platform calls of login and register counted so far.  The actions do
\* not read the clock, and it stands still while they run: all their calls
\* fall in one 15-minute window.
AuthCalls == IF authWindow = None THEN 0 ELSE authWindow.calls

\* The actions in progress without req.
WithoutPending(req) == authPending (-) SetToBag({req})

\* An action is called: it runs up to its first await, that of createClient()
\* (lines 8, 36, 74), and hands control back with nothing validated yet.
StartAuthAction(handler, data) ==
    /\ BagCardinality(authPending) < MaxAuthPending
    \* the run stops calling once the platform calls may pass the auth maximum
    /\ AuthCalls + BagCardinality(authPending) <= RATE_LIMITS.auth.maxAttempts
    /\ authPending' = authPending (+) SetToBag({[op |-> handler, data |-> data, pc |-> "createClient"]})
    /\ UNCHANGED <<authReq, failed, authWindow, limiterVars, middlewareVars, textVars, pollVars>>

\* login(data) is called.
Login(data) == StartAuthAction("login", data)

\* register(data) is called.
Register(data) == StartAuthAction("register", data)

\* logout() is called.
Logout == StartAuthAction("logout", None)

\* What the action does between createClient() and its platform call: the
\* error it returns at once, or Null when it goes on to the platform.
ErrorBeforePlatform(req) ==
    CASE req.op = "login"    -> loginValidation(req.data)
      [] req.op = "register" -> registerValidation(req.data)
      [] req.op = "logout"   -> Null

\* createClient() resolves for an action: it validates and returns the first
\* error, or calls the platform (signInWithPassword, signUp, signOut) and
\* awaits it.
ClientResolves(req) ==
    LET error == ErrorBeforePlatform(req)
    IN  /\ BagIn(req, authPending)
        /\ req.pc = "createClient"
        /\ IF error # Null
           THEN /\ authPending' = WithoutPending(req)
                /\ authReq' = [ op            |-> req.op,
                                data          |-> req.data,
                                pc            |-> "returned",
                                platformCalls |-> 0,
                                platform      |-> "not called",
                                error         |-> error ]
                /\ UNCHANGED authWindow
           ELSE /\ authPending' = WithoutPending(req) (+) SetToBag({[req EXCEPT !.pc = "platform"]})
                /\ authWindow' = IF req.op = "logout"
                                 THEN authWindow
                                 ELSE WindowAfterCall(authWindow, "auth", now)
                /\ UNCHANGED authReq
        /\ UNCHANGED <<failed, limiterVars, middlewareVars, textVars, pollVars>>

\* createClient() rejects for an action: the action rejects with nothing
\* validated and no platform call.
ClientRejects(req) ==
    /\ BagIn(req, authPending)
    /\ req.pc = "createClient"
    /\ authPending' = WithoutPending(req)
    /\ authReq' = [ op            |-> req.op,
                    data          |-> req.data,
                    pc            |-> "rejected",
                    platformCalls |-> 0,
                    platform      |-> "not called",
                    error         |-> Thrown ]
    /\ UNCHANGED <<failed, authWindow, limiterVars, middlewareVars, textVars, pollVars>>

\* The platform call of an action comes back without an error, and the
\* action returns.
PlatformSucceeds(req) ==
    /\ BagIn(req, authPending)
    /\ req.pc = "platform"
    /\ authPending' = WithoutPending(req)
    /\ authReq' = [ op            |-> req.op,
                    data          |-> req.data,
                    pc            |-> "returned",
                    platformCalls |-> 1,
                    platform      |-> "succeeded",
                    error         |-> Null ]
    /\ UNCHANGED <<failed, authWindow, limiterVars, middlewareVars, textVars, pollVars>>

\* The platform call of an action comes back with an error, and the action
\* returns.
PlatformFails(req, message) ==
    /\ BagIn(req, authPending)
    /\ req.pc = "platform"
    /\ authPending' = WithoutPending(req)
    /\ authReq' = [ op            |-> req.op,
                    data          |-> req.data,
                    pc            |-> "returned",
                    platformCalls |-> 1,
                    platform      |-> "failed",
                    error         |-> ErrorOnPlatformFailure(req.op, message) ]
    /\ failed' = [failed EXCEPT ![req.op] = @ \cup {ErrorOnPlatformFailure(req.op, message)}]
    /\ UNCHANGED <<authWindow, limiterVars, middlewareVars, textVars, pollVars>>

\* The platform call of an action rejects: the await (lines 22, 55, 75) is in
\* no try block, so the action rejects after its one platform call.
PlatformRejects(req) ==
    /\ BagIn(req, authPending)
    /\ req.pc = "platform"
    /\ authPending' = WithoutPending(req)
    /\ authReq' = [ op            |-> req.op,
                    data          |-> req.data,
                    pc            |-> "rejected",
                    platformCalls |-> 1,
                    platform      |-> "rejected",
                    error         |-> Thrown ]
    /\ UNCHANGED <<failed, authWindow, limiterVars, middlewareVars, textVars, pollVars>>

AuthNext ==
    \/ \E data \in LoginForms : Login(data)
    \/ \E data \in RegisterForms : Register(data)
    \/ Logout
    \/ \E req \in BagToSet(authPending) : ClientResolves(req)
    \/ \E req \in BagToSet(authPending) : ClientRejects(req)
    \/ \E req \in BagToSet(authPending) : PlatformSucceeds(req)
    \/ \E req \in BagToSet(authPending), message \in PlatformErrors : PlatformFails(req, message)
    \/ \E req \in BagToSet(authPending) : PlatformRejects(req)

SpecAuth == AuthInit /\ [][AuthNext]_vars

-----------------------------------------------------------------------------
(* Poll actions by two users and a caller without a session                *)

Users == {"u1", "u2"}

Actors == Users \cup {Unauthenticated}

\* Questions that passed validation.
Questions == {"q1", "q2"}

PollsInit ==
    /\ PollsIdle
    /\ LimiterIdle
    /\ MiddlewareIdle
    /\ TextIdle
    /\ AuthIdle

\* A poll action ran: the table it left and what it is remembered by.
PollActionRan(op, actor, id, out) ==
    /\ polls' = out.polls
    /\ lastPollOp' = [ op     |-> op,
                       actor  |-> actor,
                       id     |-> id,
                       before |-> polls,
                       error  |-> out.error ]
    /\ UNCHANGED <<limiterVars, middlewareVars, textVars, authVars>>

\* The platform inserts a poll under an id not in use.
CreatePoll(actor, id, question) ==
    /\ polls[id] = None
    /\ PollActionRan("createPoll", actor, id, createPoll(polls, actor, id, question))

DeletePoll(actor, id) ==
    PollActionRan("deletePoll", actor, id, deletePoll(polls, actor, id))

UpdatePoll(actor, id, question) ==
    PollActionRan("updatePoll", actor, id, updatePoll(polls, actor, id, question))

PollsNext ==
    \/ \E actor \in Actors, id \in PollIds, question \in Questions :
          CreatePoll(actor, id, question)
    \/ \E actor \in Actors, id \in PollIds : DeletePoll(actor, id)
    \/ \E actor \in Actors, id \in PollIds, question \in Questions :
          UpdatePoll(actor, id, question)

SpecPolls == PollsInit /\ [][PollsNext]_vars

-----------------------------------------------------------------------------
(* Claims about the limiter                                                *)

\* The window the last call fell in.
LastWindow == window[<<last.type, last.identifier>>]

LastMax == RATE_LIMITS[last.type].maxAttempts

\* C1: within one window, counted from the call that met no entry, call n of a
\* key is allowed with remaining = max - n for n = 1..max, and is denied with
\* remaining = 0 for every n > max, for each class's max (5, 3, 30).
C1_QuotaPerWindow ==
    last.op = "check" =>
        /\ last.result.allowed = (LastWindow.calls <= LastMax)
        /\ last.result.remaining =
               IF LastWindow.calls <= LastMax THEN LastMax - LastWindow.calls ELSE 0

\* The api class has been called to its cap and twice beyond it in one window.
C1_Witness ==
    /\ last.op = "check"
    /\ last.type = "api"
    /\ LastWindow.calls = RATE_LIMITS.api.maxAttempts + 2
    /\ ~last.result.allowed

\* The last call met no entry or an entry whose resetTime had passed.
LastFresh == last.before = None \/ now > last.before.resetTime

LastFreshEntry == [count |-> 1, resetTime |-> now + RATE_LIMITS[last.type].windowMs]

\* C2: a call stores count = 1 and resetTime = now + window and returns
\* allowed with remaining = max - 1 exactly when it met no entry or now >
\* resetTime; every other call leaves the stored resetTime as it was.
C2_FixedWindowReset ==
    last.op = "check" =>
        /\ LastFresh =>
              /\ last.after = LastFreshEntry
              /\ last.result = [ allowed   |-> TRUE,
                                 remaining |-> LastMax - 1,
                                 resetTime |-> LastFreshEntry.resetTime ]
        /\ ~LastFresh =>
              /\ last.after # LastFreshEntry
              /\ last.after.resetTime = last.before.resetTime
              /\ last.result.resetTime = last.before.resetTime

\* A client whose entry stood at the cap calls after resetTime and is let in.
C2_Witness ==
    /\ last.op = "check"
    /\ last.before # None
    /\ last.before.count = LastMax
    /\ now > last.before.resetTime
    /\ last.result.allowed
    /\ last.after.count = 1

\* C3: every stored entry has 1 <= count <= max of its class, and a denied
\* call leaves the entry as it was.
C3_CountWithinCap ==
    /\ \A p \in Pairs :
          LET entry == StoreGet(rateLimitStore, Key(p[1], p[2]))
          IN  entry # None =>
                 /\ 1 <= entry.count
                 /\ entry.count <= RATE_LIMITS[p[1]].maxAttempts
    /\ (last.op = "check" /\ ~last.result.allowed) => last.after = last.before

\* A key is denied for the second time in a row; its count is still the cap.
C3_Witness ==
    /\ last.op = "check"
    /\ ~last.result.allowed
    /\ LastWindow.calls = LastMax + 2
    /\ last.after.count = LastMax

\* The entry the calls of pair p so far leave in a store that is never
\* swept: the count of the calls of p's latest window, held at the cap, and
\* the end of that window.
UnsweptEntry(p) ==
    IF window[p] = None THEN None
    ELSE [ count     |-> IF window[p].calls <= RATE_LIMITS[p[1]].maxAttempts
                         THEN window[p].calls
                         ELSE RATE_LIMITS[p[1]].maxAttempts,
           resetTime |-> window[p].start + RATE_LIMITS[p[1]].windowMs ]

\* The result checkRateLimit gives on the last call in a run without sweeps.
UnsweptResult ==
    LET p     == <<last.type, last.identifier>>
        calls == window[p].calls
        max   == RATE_LIMITS[last.type].maxAttempts
    IN  [ allowed   |-> calls <= max,
          remaining |-> IF calls <= max THEN max - calls ELSE 0,
          resetTime |-> UnsweptEntry(p).resetTime ]

\* C16: a sweep removes only entries with now > resetTime, so the store
\* holds, of the entries a run without sweeps would hold, every one whose
\* window is still active and otherwise nothing else; and every call returns
\* the allowed, remaining and resetTime of the same calls without the sweeps.
C16_SweepKeepsActiveWindows ==
    /\ last.op = "sweep" => \A entry \in last.removed : now > entry.resetTime
    /\ \A p \in Pairs :
          LET entry == StoreGet(rateLimitStore, Key(p[1], p[2]))
          IN  /\ entry # None => entry = UnsweptEntry(p)
              /\ IF UnsweptEntry(p) = None THEN TRUE
                 ELSE ~(now > UnsweptEntry(p).resetTime) => entry = UnsweptEntry(p)
    /\ last.op = "check" => last.result = UnsweptResult

\* A sweep removed the expired entry of a key that had reached its cap and
\* kept the entry of another key, whose window is still active.
C16_Witness ==
    /\ last.op = "sweep"
    /\ \E entry \in last.removed : \E type \in LimitTypes :
          entry.count = RATE_LIMITS[type].maxAttempts
    /\ \E k \in DOMAIN rateLimitStore : ~(now > rateLimitStore[k].resetTime)

\* Identifiers a key can be built from, one with the separator in it.
KeyIdentifiers == Identifiers \cup {Unknown, <<>>, <<"1", ":", "2">>, <<"a", "p", "i", ":", "1">>}

\* C17: a call changes no entry but that of its own class and identifier,
\* no other (class, identifier) pair has the key of the call's pair, and a
\* call is denied only when the entry of its own pair stood at the cap of
\* its class.
C17_OnlyOwnEntry ==
    last.op = "check" =>
          /\ \A q \in LimitTypes \X KeyIdentifiers :
                Key(q[1], q[2]) = Key(last.type, last.identifier) =>
                    q = <<last.type, last.identifier>>
          /\ \A p \in Pairs :
                p # <<last.type, last.identifier>> =>
                    StoreGet(rateLimitStore, Key(p[1], p[2])) =
                        StoreGet(last.store, Key(p[1], p[2]))
          /\ DOMAIN rateLimitStore = DOMAIN last.store \cup {Key(last.type, last.identifier)}
          /\ ~last.result.allowed =>
                /\ last.before # None
                /\ last.before.count = LastMax

\* A call was allowed while the other key in use, a different client or a
\* different class, stood at its cap in an active window.
C17_Witness ==
    /\ last.op = "check"
    /\ last.result.allowed
    /\ \E p \in workload :
          /\ p # <<last.type, last.identifier>>
          /\ StoreGet(rateLimitStore, Key(p[1], p[2])) # None
          /\ StoreGet(rateLimitStore, Key(p[1], p[2])).count = RATE_LIMITS[p[1]].maxAttempts
          /\ ~(now > StoreGet(rateLimitStore, Key(p[1], p[2])).resetTime)
          /\ StoreGet(last.store, Key(p[1], p[2])) = StoreGet(rateLimitStore, Key(p[1], p[2]))

-----------------------------------------------------------------------------
(* Claims about withRateLimit                                              *)

RouteMax == RATE_LIMITS[routeType].maxAttempts

\* Two requests of one client checked in the same window of the route.
SameWindow(a, b) ==
    /\ a.clientIP = b.clientIP
    /\ a.result.resetTime = b.result.resetTime

\* Request i read the count max - 1 and request j, in the same window, read a
\* count of at least max - 1.
RaceForLastSlot(i, j) ==
    /\ i # j
    /\ SameWindow(requests[i], requests[j])
    /\ requests[i].seen = RouteMax - 1
    /\ requests[j].seen >= RouteMax - 1

\* C7 (as amended): checkRateLimit runs from its read to its write without
\* yielding, so of two requests of one client that meet the count max - 1 in
\* the same window, also when both are in the handler at once, the first is
\* admitted and the other is denied.
C7_LastSlotAdmitsOne ==
    \A i, j \in DOMAIN requests :
        RaceForLastSlot(i, j) =>
            /\ requests[i].result.allowed
            /\ ~requests[j].result.allowed

\* C7 (as stated): two requests of one client that meet the count max - 1 in
\* the same window are both admitted.
C7_AsStated_BothAdmitted ==
    \A i, j \in DOMAIN requests :
        RaceForLastSlot(i, j) =>
            /\ requests[i].result.allowed
            /\ requests[j].result.allowed

\* A request arrives while the request that took the last slot is still in
\* the handler.
C7_Witness ==
    \E i, j \in DOMAIN requests :
        /\ RaceForLastSlot(i, j)
        /\ requests[i].pc = "handler"
        /\ ~requests[j].result.allowed

RateLimitHeaderNames ==
    {"Retry-After", "X-RateLimit-Limit", "X-RateLimit-Remaining", "X-RateLimit-Reset"}

\* The store still counts the call of request req: its window is over, or
\* the entry of its window holds a count above the one the request read.
QuotaConsumed(req) ==
    LET entry == StoreGet(rateLimitStore, Key(routeType, req.clientIP))
    IN  IF entry = None
        THEN now > req.result.resetTime
        ELSE \/ entry.resetTime > req.result.resetTime
             \/ /\ entry.resetTime = req.result.resetTime
                /\ entry.count >= req.seen + 1

\* C8: the handler is invoked once when the limiter allows and never when it
\* denies; a denied request is answered with status 429 carrying Retry-After,
\* X-RateLimit-Limit, X-RateLimit-Remaining = 0 and X-RateLimit-Reset; and an
\* allowed request's call stays counted while the handler runs and whether it
\* resolves or rejects.
C8_HandlerGatedByLimiter ==
    \A i \in DOMAIN requests :
        LET req == requests[i]
        IN  /\ req.handlerCalls = IF req.result.allowed THEN 1 ELSE 0
            /\ ~req.result.allowed =>
                  /\ req.pc = "responded"
                  /\ req.response.status = 429
                  /\ RateLimitHeaderNames \subseteq DOMAIN req.response.headers
                  /\ req.response.headers["X-RateLimit-Remaining"] = <<"0">>
                  /\ req.response.headers["X-RateLimit-Reset"] =
                         NumberToString(req.result.resetTime)
            /\ req.result.allowed =>
                  /\ req.pc \in {"handler", "responded", "rejected"}
                  /\ QuotaConsumed(req)

\* One request was denied with 429 and the handler of another has thrown.
C8_Witness ==
    \E i, j \in DOMAIN requests :
        /\ ~requests[i].result.allowed
        /\ requests[i].response.status = 429
        /\ requests[j].pc = "rejected"
        /\ requests[j].handlerCalls = 1

\* C15: on every response of a wrapped handler, allowed or denied, the
\* X-RateLimit-Limit header is the cap of the route's class (5, 3 or 30), so
\* X-RateLimit-Remaining never exceeds it.
C15_LimitHeaderIsClassCap ==
    \A i \in DOMAIN requests :
        requests[i].pc = "responded" =>
            /\ requests[i].response.headers["X-RateLimit-Limit"] = NumberToString(RouteMax)
            /\ requests[i].response.headers["X-RateLimit-Remaining"] =
                   NumberToString(requests[i].result.remaining)
            /\ requests[i].result.remaining <= RouteMax

-----------------------------------------------------------------------------
(* Claims about the sanitizers and validatePollOptions                     *)

\* Every option of the array as validatePollOptions measures it.
CleanOptions == [i \in DOMAIN pollOptions |-> Trim(sanitizeText(pollOptions[i]))]

\* What C9 says of the last validation, given the options it counts as
\* over-length.  With no errors, sanitized holds every option of the input
\* (2 to 10 of them) after sanitizeText and trim, each non-empty, of at most
\* 200 characters, no two equal.  And an input of 2 to 10 options with an
\* option that is empty once trimmed, an over-length option, or two options
\* equal once sanitized gets errors, those of the empty and the over-length
\* options naming the option's position counted from 1.
OptionsRule(tooLong) ==
    LET blank == {i \in DOMAIN pollOptions : Trim(pollOptions[i]) = <<>>}
        equal == \E i, j \in DOMAIN pollOptions :
                     i < j /\ sanitizeText(pollOptions[i]) = sanitizeText(pollOptions[j])
        InErrors(message) ==
            \E k \in DOMAIN validated.errors : validated.errors[k] = message
    IN  /\ validated.errors = <<>> =>
              /\ Len(pollOptions) >= 2
              /\ Len(pollOptions) <= 10
              /\ Len(validated.sanitized) = Len(pollOptions)
              /\ validated.sanitized = CleanOptions
              /\ \A i \in DOMAIN validated.sanitized :
                    /\ validated.sanitized[i] # <<>>
                    /\ Len(validated.sanitized[i]) <= 200
              /\ \A i, j \in DOMAIN validated.sanitized :
                    i < j => validated.sanitized[i] # validated.sanitized[j]
        /\ (Len(pollOptions) >= 2 /\ Len(pollOptions) <= 10) =>
              /\ (blank # {} \/ tooLong # {} \/ equal) => validated.errors # <<>>
              /\ \A i \in blank : InErrors(<<"Option ", i, " cannot be empty">>)
              /\ \A i \in tooLong :
                    InErrors(<<"Option ", i, " must be less than 200 characters">>)

\* C9: with no errors, sanitized is the input's options after sanitizeText
\* and trim, 2 to 10 of them, non-empty, of at most 200 characters, no two
\* equal; and an input of 2 to 10 options with an option that is empty once
\* trimmed, an option of over 200 characters once sanitized and trimmed, or
\* two options equal once sanitized gets errors, those of the empty and the
\* over-length options naming the option's position counted from 1.
C9_OptionsValidated ==
    validated.op = "validate" =>
        OptionsRule({i \in DOMAIN pollOptions : Len(CleanOptions[i]) > 200})

\* C9 (as stated): the same with the over-length options being those of over
\* 200 characters in the input.
C9_AsStated_InputOver200Rejected ==
    validated.op = "validate" =>
        OptionsRule({i \in DOMAIN pollOptions : Len(pollOptions[i]) > 200})

\* An array of 2 to 10 options, one of over 200 characters in the input and
\* of 200 or fewer once sanitized, got no errors and came back sanitized.
C9_Witness ==
    /\ validated.op = "validate"
    /\ \E i \in DOMAIN pollOptions :
          /\ Len(pollOptions[i]) > 200
          /\ Len(CleanOptions[i]) <= 200
    /\ validated.errors = <<>>
    /\ Len(validated.sanitized) = Len(pollOptions)

Contains(str, ch) == \E k \in DOMAIN str : str[k] = ch

\* A '<' with a '>' somewhere after it.
HasTagShape(str) ==
    \E i, j \in DOMAIN str : i < j /\ str[i] = "<" /\ str[j] = ">"

\* C10: for every input string the outputs of sanitizeHtml and of
\* sanitizeText hold no '<' and no '>', and what sanitizeText escapes, the
\* input after its tag removal, holds no '<...>' shape any more.
C10_NoAngleBrackets ==
    sanitizedOut.op = "sanitize" =>
        /\ ~Contains(sanitizedOut.html, "<")
        /\ ~Contains(sanitizedOut.html, ">")
        /\ ~Contains(sanitizedOut.text, "<")
        /\ ~Contains(sanitizedOut.text, ">")
        /\ ~HasTagShape(sanitizedOut.stripped)
        /\ sanitizedOut.text = EscapeText(sanitizedOut.stripped)

\* A tag opened inside a tag, '<<>>', has been sanitized: the removal took
\* the first three characters and left the last '>' to be escaped.
C10_Witness ==
    /\ sanitizedOut.op = "sanitize"
    /\ Len(text) >= 4
    /\ SubSeq(text, 1, 4) = <<"<", "<", ">", ">">>
    /\ sanitizedOut.stripped = SubSeq(text, 4, Len(text))
    /\ Contains(sanitizedOut.stripped, ">")
    /\ sanitizedOut.text # sanitizedOut.html

-----------------------------------------------------------------------------
(* Claims about the auth actions                                           *)

\* C4: login and register consult the limiter before the platform auth call,
\* so no more than 5 of their platform calls fall in one 15-minute window.
C4_AuthAttemptsLimited ==
    authWindow # None => authWindow.calls <= RATE_LIMITS.auth.maxAttempts

\* C5: when the platform call fails, what login, register and logout return
\* as error does not depend on the platform's error: each of them has one
\* error for all platform failures.
C5_GenericPlatformErrors ==
    \A h \in AuthHandlers : Cardinality(failed[h]) <= 1

\* The errors of the fields of an action's data, in the order the action
\* looks at them: email, password and, for register, name.
FieldErrors(req) ==
    << validateEmail(req.data.email).errors,
       validatePassword(req.data.password).errors >>
    \o (IF req.op = "register"
        THEN <<validateName(req.data.name).errors>>
        ELSE <<>>)

\* The fields of an action's data that are invalid.
Failing(req) ==
    LET errors == FieldErrors(req)
    IN  {f \in DOMAIN errors : errors[f] # <<>>}

\* C14: login and register call the platform at most once per request and
\* only when every field is valid; with an invalid field they return the
\* first error of the first invalid field in the order email, password, name
\* without calling the platform; and they return no error only when every
\* field was valid and the platform call succeeded.  (An action rejects,
\* returning nothing, when createClient() rejects, with nothing validated
\* and nothing called, or when its platform call rejects.)
C14_PlatformAfterValidation ==
    /\ \A req \in BagToSet(authPending) :
          (req.op \in {"login", "register"} /\ req.pc = "platform") => Failing(req) = {}
    /\ authReq.op \in {"login", "register"} =>
          LET errors  == FieldErrors(authReq)
              failing == {f \in DOMAIN errors : errors[f] # <<>>}
          IN  /\ authReq.platformCalls <= 1
              /\ authReq.pc = "rejected" =>
                    /\ authReq.platformCalls = 0 <=> authReq.platform = "not called"
                    /\ authReq.platformCalls = 1 =>
                          /\ authReq.platform = "rejected"
                          /\ failing = {}
              /\ authReq.pc = "returned" =>
                    /\ failing # {} =>
                          LET first == CHOOSE f \in failing : \A g \in failing : f <= g
                          IN  /\ authReq.platformCalls = 0
                              /\ authReq.error = errors[first][1]
                    /\ failing = {} => authReq.platformCalls = 1
                    /\ authReq.error = Null =>
                          /\ failing = {}
                          /\ authReq.platform = "succeeded"

\* A login with an invalid email and an invalid password returned the error
\* of the email without a platform call, while another action was awaiting
\* the platform, its email valid and, trimmed and in lower case, ending
\* before the '@' in a final sigma that follows a Kelvin sign and a mark.
C14_Witness ==
    /\ authReq.op = "login"
    /\ authReq.pc = "returned"
    /\ validateEmail(authReq.data.email).errors # <<>>
    /\ validatePassword(authReq.data.password).errors # <<>>
    /\ authReq.error = "Please enter a valid email address"
    /\ authReq.platformCalls = 0
    /\ \E req \in BagToSet(authPending) :
          /\ req.pc = "platform"
          /\ validateEmail(req.data.email) =
                [ sanitized |-> <<"U+00E9", "k", "U+0897", "U+03C2", "@", "b", ".", "c">>,
                  errors    |-> <<>> ]

-----------------------------------------------------------------------------
(* Claims about the poll actions                                           *)

\* The last poll action was a delete or an update by someone other than the
\* poll's owner: a caller without a session, or a user acting on a poll that
\* is another's or does not exist.
LastByNonOwner ==
    /\ lastPollOp.op \in {"deletePoll", "updatePoll"}
    /\ \/ lastPollOp.actor = Unauthenticated
       \/ lastPollOp.before[lastPollOp.id] = None
       \/ lastPollOp.before[lastPollOp.id].ownerId # lastPollOp.actor

\* C6: deletePoll and updatePoll by anyone but the poll's owner fail with
\* Forbidden, whether or not the poll exists, and leave every poll as it was.
C6_OnlyOwnerMutates ==
    LastByNonOwner =>
        /\ lastPollOp.error = "Forbidden"
        /\ polls = lastPollOp.before

\* A user tried to delete another user's poll, which is still there.
C6_Witness ==
    /\ lastPollOp.op = "deletePoll"
    /\ lastPollOp.actor \in Users
    /\ lastPollOp.before[lastPollOp.id] # None
    /\ lastPollOp.before[lastPollOp.id].ownerId # lastPollOp.actor
    /\ lastPollOp.error = "Forbidden"
    /\ polls[lastPollOp.id] # None

-----------------------------------------------------------------------------
(* Claims about validateName                                               *)

\* C11: validateName returns no errors for a name whose trimmed form has 2 to
\* 100 characters, all of them letters, spaces, hyphens or apostrophes, and
\* returns an error for a name that holds any other character.
C11_NameRule ==
    validated.op = "validateName" =>
        LET trimmed   == Trim(text)
            NameChars == LowerCase \cup UpperCase \cup {" ", "-", "'"}
        IN  /\ ( /\ Len(trimmed) >= 2
                 /\ Len(trimmed) <= 100
                 /\ \A k \in DOMAIN trimmed : trimmed[k] \in NameChars )
                    => validated.errors = <<>>
            /\ (\E k \in DOMAIN text : text[k] \notin NameChars)
                    => validated.errors # <<>>

-----------------------------------------------------------------------------
(* Claims about validatePassword                                           *)

\* The rules in the order of the claim, each with what it asks of the
\* password and the error of failing it.
PasswordRules ==
    << [ok |-> Len(text) > 0,  error |-> "Password is required"],
       [ok |-> Len(text) >= 8, error |-> "Password must be at least 8 characters long"],
       [ok |-> Len(text) <= 128, error |-> "Password is too long"],
       [ok |-> \E k \in DOMAIN text : text[k] \in LowerCase,
        error |-> "Password must contain at least one lowercase letter"],
       [ok |-> \E k \in DOMAIN text : text[k] \in UpperCase,
        error |-> "Password must contain at least one uppercase letter"],
       [ok |-> \E k \in DOMAIN text : text[k] \in DigitChars,
        error |-> "Password must contain at least one number"] >>

\* C12: validatePassword returns no errors exactly when the password has 8 to
\* 128 characters with a lowercase letter, an uppercase letter and a digit;
\* otherwise it returns one error, that of the first rule that fails in the
\* order required, minimum length, maximum length, lowercase, uppercase, digit.
C12_FirstFailingRule ==
    validated.op = "validatePassword" =>
        LET failing == {r \in DOMAIN PasswordRules : ~PasswordRules[r].ok}
        IN  /\ validated.errors = <<>> <=> failing = {}
            /\ failing # {} =>
                  LET first == CHOOSE r \in failing : \A q \in failing : r <= q
                  IN  validated.errors = <<PasswordRules[first].error>>

\* A password of 128 characters with a lowercase letter but neither an
\* uppercase letter nor a digit got the uppercase error alone.
C12_Witness ==
    /\ validated.op = "validatePassword"
    /\ Len(text) = 128
    /\ \E k \in DOMAIN text : text[k] \in LowerCase
    /\ ~\E k \in DOMAIN text : text[k] \in UpperCase \cup DigitChars
    /\ validated.errors = <<"Password must contain at least one uppercase letter">>

-----------------------------------------------------------------------------
(* Claims about getClientIP                                                *)

\* What precedes the first comma of str, found as its longest comma-free prefix.
FirstEntry(str) ==
    LET free == {k \in 0..Len(str) : \A j \in 1..k : str[j] # ","}
    IN  SubSeq(str, 1, CHOOSE k \in free : \A j \in free : j <= k)

\* The header of a request, <<>> when the request does not carry it.
HeaderOf(headers, name) == IF name \in DOMAIN headers THEN headers[name] ELSE <<>>

\* The client a request is counted as when a header counts once it is not
\* empty: cf-connecting-ip, else x-real-ip, else the first entry of
\* x-forwarded-for trimmed, else "unknown".
ClientOfNonEmpty(headers) ==
    IF HeaderOf(headers, "cf-connecting-ip") # <<>> THEN headers["cf-connecting-ip"]
    ELSE IF HeaderOf(headers, "x-real-ip") # <<>> THEN headers["x-real-ip"]
    ELSE IF HeaderOf(headers, "x-forwarded-for") # <<>>
         THEN Trim(FirstEntry(headers["x-forwarded-for"]))
    ELSE Unknown

\* The last request was counted in the bucket of its class and of client:
\* its result is that of the call after those the bucket held.
CountedInBucketOf(client) ==
    LET bucket == StoreGet(last.before, Key(last.type, client))
        held   == IF bucket = None THEN 0 ELSE bucket.count
    IN  /\ last.identifier = client
        /\ last.result.remaining = RATE_LIMITS[last.type].maxAttempts - held - 1
        /\ StoreGet(rateLimitStore, Key(last.type, client)).count = held + 1

\* C13 (as amended): a request is counted under its cf-connecting-ip header
\* when that is not empty, else under its x-real-ip header when that is not
\* empty, else under the trimmed first comma-separated entry of a non-empty
\* x-forwarded-for, else under "unknown"; so the requests of one class that
\* carry none of the three headers, or only empty ones, share one bucket.
C13_ClientOfNonEmptyHeaders ==
    last.op = "request" => CountedInBucketOf(ClientOfNonEmpty(last.headers))

\* C13 (as stated): a request is counted under its cf-connecting-ip header
\* when it carries one, else under its x-real-ip header when it carries one,
\* else under the trimmed first entry of the x-forwarded-for it carries,
\* else under "unknown".
C13_AsStated_ClientOfPresentHeaders ==
    last.op = "request" =>
        LET headers == last.headers
            client  == IF "cf-connecting-ip" \in DOMAIN headers THEN headers["cf-connecting-ip"]
                       ELSE IF "x-real-ip" \in DOMAIN headers THEN headers["x-real-ip"]
                       ELSE IF "x-forwarded-for" \in DOMAIN headers
                            THEN Trim(FirstEntry(headers["x-forwarded-for"]))
                       ELSE Unknown
        IN  CountedInBucketOf(client)

\* A request without any of the three headers was counted as the second of
\* the bucket "unknown" of its class.
C13_Witness ==
    /\ last.op = "request"
    /\ DOMAIN last.headers = {}
    /\ last.identifier = Unknown
    /\ StoreGet(last.before, Key(last.type, Unknown)) # None
    /\ last.result.remaining = RATE_LIMITS[last.type].maxAttempts - 2

====
